---- MODULE Spec2Model ----
(***************************************************************************)
(* Sales-by-cycle analytics dashboard (eduardocaduuu/circlechanges).       *)
(*                                                                         *)
(* Strings are sequences of one-character strings, so that trimming,       *)
(* regular-expression matching, digit stripping and padding are computed   *)
(* character by character as the TypeScript does.  Money is an integer     *)
(* number of cents; JavaScript's NaN and division results are tagged       *)
(* records.                                                                *)
(***************************************************************************)
EXTENDS Integers, Sequences, FiniteSets, TLC

VARIABLES
  nArg,      \* the raw cell value handed to a normalize.ts function
  nFn,       \* the function applied to it, "none" before the call
  skuOut,    \* result of normalizeSKU
  gerOut,    \* result of extractGerenciaCode
  cicloOut,  \* result of parseCiclo
  rawData,     \* store.ts: the normalized rows
  dataQuality, \* store.ts: <<>> for null, <<quality>> otherwise
  isLoading,   \* store.ts
  error,       \* store.ts: "null" or the message
  filters,     \* store.ts
  promise,     \* the promise of the parse in flight and its FileReader
  metrics,     \* OverviewView's useMemo: <<>> before the render, <<value>> after
  clientesIn,     \* the ClientMetrics handed to segmentClients
  segmentsOut,    \* <<>> before the call, <<result>> after
  recordsIn,      \* the records handed to marketBasket.ts and regression.ts
  incluirIn,      \* their incluirBrindesDoacao
  minSupportIn,   \* the minSupport of calculateFrequentPairs
  basketsOut,     \* <<>> before generateBaskets, <<result>> after
  pairsOut,       \* <<>> before calculateFrequentPairs, <<result>> after
  predictionsOut, \* <<>> before generatePredictions, <<result>> after
  filtersIn,        \* the filters handed to applyFilters
  filteredOut,      \* <<>> before applyFilters, <<result>> after
  overviewOut,      \* <<>> before calculateOverviewMetrics, <<result>> after
  rankingOut,       \* <<>> before calculateProductRanking, <<result>> after
  clientMetricsOut, \* <<>> before calculateClientMetrics, <<result>> after
  ciclosOut,        \* <<>> before groupByCiclo, <<result>> after
  uploads,   \* the calls of FileUpload.handleFile, in the order they started
  lastStore, \* the last action applied to the store and the call it belongs to
  timers,    \* the timeout of each debounced setter of FiltersBar
  quiet      \* TRUE from resetFilters until the next user input

normVars == <<nArg, nFn, skuOut, gerOut, cicloOut>>
storeVars == <<rawData, dataQuality, isLoading, error, filters>>
appVars == <<rawData, dataQuality, isLoading, error, filters, promise, metrics>>
segVars == <<clientesIn, segmentsOut>>
mineVars == <<recordsIn, incluirIn, minSupportIn, basketsOut, pairsOut, predictionsOut>>
aggVars == <<filtersIn, filteredOut, overviewOut, rankingOut, clientMetricsOut, ciclosOut>>
uiVars == <<uploads, lastStore, timers, quiet>>
vars == <<nArg, nFn, skuOut, gerOut, cicloOut,
          rawData, dataQuality, isLoading, error, filters, promise, metrics,
          clientesIn, segmentsOut,
          recordsIn, incluirIn, minSupportIn, basketsOut, pairsOut, predictionsOut,
          filtersIn, filteredOut, overviewOut, rankingOut, clientMetricsOut, ciclosOut,
          uploads, lastStore, timers, quiet>>

(***************************************************************************)
(* Bounds of the model.                                                    *)
(***************************************************************************)
MaxStrLen == 7
MaxNumDigits == 7

(***************************************************************************)
(* Characters and strings.                                                 *)
(***************************************************************************)
DigitSeq == <<"0", "1", "2", "3", "4", "5", "6", "7", "8", "9">>
Digits == {DigitSeq[i] : i \in 1..10}

IsDigit(c) == c \in Digits
IsSpace(c) == c = " "

UNKNOWN == <<"U", "N", "K", "N", "O", "W", "N">>
INVALID == <<"I", "N", "V", "A", "L", "I", "D">>

SeqsUpTo(S, n) == UNION {[1..k -> S] : k \in 0..n}

AllDigits(s) == \A i \in 1..Len(s) : IsDigit(s[i])

\* String.prototype.trim
RECURSIVE TrimLeft(_)
TrimLeft(s) ==
  IF s # <<>> /\ IsSpace(Head(s)) THEN TrimLeft(Tail(s)) ELSE s

RECURSIVE TrimRight(_)
TrimRight(s) ==
  IF s # <<>> /\ IsSpace(s[Len(s)]) THEN TrimRight(SubSeq(s, 1, Len(s) - 1)) ELSE s

Trim(s) == TrimRight(TrimLeft(s))

\* String.prototype.padStart(n, c)
RECURSIVE PadStart(_, _, _)
PadStart(s, n, c) == IF Len(s) >= n THEN s ELSE PadStart(<<c>> \o s, n, c)

\* value of a decimal digit character
DigitVal(c) == CHOOSE d \in 0..9 : DigitSeq[d + 1] = c

\* parseInt(s, 10) of a string of decimal digits
RECURSIVE StrToNat(_)
StrToNat(s) ==
  IF s = <<>> THEN 0
  ELSE 10 * StrToNat(SubSeq(s, 1, Len(s) - 1)) + DigitVal(s[Len(s)])

\* decimal text of a natural number
RECURSIVE NatToStr(_)
NatToStr(n) ==
  IF n < 10 THEN <<DigitSeq[n + 1]>>
  ELSE NatToStr(n \div 10) \o <<DigitSeq[(n % 10) + 1]>>

(***************************************************************************)
(* Values of a raw spreadsheet cell: absent (undefined), a string, a       *)
(* number (an integer here) or NaN.                                        *)
(***************************************************************************)
Absent == [k |-> "absent", n |-> 0, s |-> <<>>]
NaNv == [k |-> "nan", n |-> 0, s |-> <<>>]
Num(n) == [k |-> "num", n |-> n, s |-> <<>>]
Str(s) == [k |-> "str", n |-> 0, s |-> s]

\* String(value) of a present value
String(v) ==
  CASE v.k = "str" -> v.s
    [] v.k = "num" -> IF v.n < 0 THEN <<"-">> \o NatToStr(0 - v.n) ELSE NatToStr(v.n)
    [] v.k = "nan" -> <<"N", "a", "N">>
    [] OTHER -> <<"u", "n", "d", "e", "f", "i", "n", "e", "d">>

\* JavaScript truthiness: !value
Falsy(v) ==
  \/ v.k = "absent"
  \/ v.k = "nan"
  \/ v.k = "num" /\ v.n = 0
  \/ v.k = "str" /\ v.s = <<>>

(***************************************************************************)
(* normalize.ts                                                            *)
(***************************************************************************)
\* leftmost index >= i at which /\d{5}/ matches, 0 when there is none
RECURSIVE MatchDigits5(_, _)
MatchDigits5(s, i) ==
  IF i + 4 > Len(s) THEN 0
  ELSE IF \A j \in i..(i + 4) : IsDigit(s[j]) THEN i
  ELSE MatchDigits5(s, i + 1)

\* mutant: the regular expression is /\d{4}/
extractGerenciaCode_FourDigits(gerencia) ==
  IF gerencia.k = "absent" THEN UNKNOWN
  ELSE LET gerenciaStr == Trim(String(gerencia))
           m == MatchDigits5(gerenciaStr \o <<"0">>, 1)
       IN IF gerenciaStr = <<>> THEN UNKNOWN
          ELSE IF m = 0 THEN UNKNOWN
          ELSE SubSeq(gerenciaStr, m, m + 3)

extractGerenciaCode(gerencia) ==
  IF gerencia.k = "absent" THEN UNKNOWN
  ELSE LET gerenciaStr == Trim(String(gerencia))
           m == MatchDigits5(gerenciaStr, 1)
       IN IF gerenciaStr = <<>> THEN UNKNOWN
          ELSE IF m = 0 THEN UNKNOWN
          ELSE SubSeq(gerenciaStr, m, m + 4)

\* mutant: pads to 4 digits
normalizeSKU_PadFour(codigoProduto) ==
  IF codigoProduto.k = "absent" THEN INVALID
  ELSE LET sku == Trim(String(codigoProduto))
           numericSku == SelectSeq(sku, IsDigit)
       IN IF Len(numericSku) = 0 \/ Len(numericSku) > 6 THEN INVALID
          ELSE PadStart(numericSku, 4, "0")

normalizeSKU(codigoProduto) ==
  IF codigoProduto.k = "absent" THEN INVALID
  ELSE LET sku == Trim(String(codigoProduto))
           numericSku == SelectSeq(sku, IsDigit)
       IN IF Len(numericSku) = 0 \/ Len(numericSku) > 6 THEN INVALID
          ELSE PadStart(numericSku, 5, "0")

CicloUnknown == [threw |-> FALSE, label |-> UNKNOWN, index |-> -1, mes |-> 0, ano |-> 0]
CicloThrew == [threw |-> TRUE, label |-> UNKNOWN, index |-> -1, mes |-> 0, ano |-> 0]

IsCicloSep(c) == c \in {"/", "-"}

\* /(\d{1,2})[\/\-](\d{4})/ matched at index i with a month group of len digits
CicloMatchAt(s, i, len) ==
  /\ i + len + 4 <= Len(s)
  /\ \A j \in i..(i + len - 1) : IsDigit(s[j])
  /\ IsCicloSep(s[i + len])
  /\ \A j \in (i + len + 1)..(i + len + 4) : IsDigit(s[j])

\* leftmost match at or after i, the greedy month group first; pos = 0: no match
RECURSIVE CicloMatch(_, _)
CicloMatch(s, i) ==
  IF i > Len(s) THEN [pos |-> 0, len |-> 0]
  ELSE IF CicloMatchAt(s, i, 2) THEN [pos |-> i, len |-> 2]
  ELSE IF CicloMatchAt(s, i, 1) THEN [pos |-> i, len |-> 1]
  ELSE CicloMatch(s, i + 1)

\* mutant: the month range check is off by one
parseCiclo_Month13(cicloString) ==
  IF Falsy(cicloString) THEN CicloUnknown
  ELSE IF cicloString.k # "str" THEN CicloThrew
  ELSE LET s == cicloString.s
           match == CicloMatch(s, 1)
           mes == StrToNat(SubSeq(s, match.pos, match.pos + match.len - 1))
           ano == StrToNat(SubSeq(s, match.pos + match.len + 1, match.pos + match.len + 4))
       IN IF match.pos = 0 THEN CicloUnknown
          ELSE IF mes < 1 \/ mes > 13 \/ ano < 2000 \/ ano > 2100 THEN CicloUnknown
          ELSE [threw |-> FALSE, label |-> Trim(s), index |-> ano * 12 + mes,
                mes |-> mes, ano |-> ano]

\* a non-string truthy argument has no match method: TypeError
parseCiclo(cicloString) ==
  IF Falsy(cicloString) THEN CicloUnknown
  ELSE IF cicloString.k # "str" THEN CicloThrew
  ELSE LET s == cicloString.s
           match == CicloMatch(s, 1)
           mes == StrToNat(SubSeq(s, match.pos, match.pos + match.len - 1))
           ano == StrToNat(SubSeq(s, match.pos + match.len + 1, match.pos + match.len + 4))
       IN IF match.pos = 0 THEN CicloUnknown
          ELSE IF mes < 1 \/ mes > 12 \/ ano < 2000 \/ ano > 2100 THEN CicloUnknown
          ELSE [threw |-> FALSE, label |-> Trim(s), index |-> ano * 12 + mes,
                mes |-> mes, ano |-> ano]

(***************************************************************************)
(* Letter case.  The accented letters of "doação" and "endereço" are the   *)
(* one-character tokens "c," and "a~" (upper case "C," and "A~").          *)
(***************************************************************************)
LowerSeq == <<"a", "b", "c", "d", "e", "f", "g", "h", "i", "j", "k", "l", "m",
              "n", "o", "p", "q", "r", "s", "t", "u", "v", "w", "x", "y", "z",
              "c,", "a~">>
UpperSeq == <<"A", "B", "C", "D", "E", "F", "G", "H", "I", "J", "K", "L", "M",
              "N", "O", "P", "Q", "R", "S", "T", "U", "V", "W", "X", "Y", "Z",
              "C,", "A~">>

UpperChar(c) ==
  IF \E i \in 1..Len(LowerSeq) : LowerSeq[i] = c
  THEN UpperSeq[CHOOSE i \in 1..Len(LowerSeq) : LowerSeq[i] = c]
  ELSE c

LowerChar(c) ==
  IF \E i \in 1..Len(UpperSeq) : UpperSeq[i] = c
  THEN LowerSeq[CHOOSE i \in 1..Len(UpperSeq) : UpperSeq[i] = c]
  ELSE c

toUpperCase(s) == [i \in 1..Len(s) |-> UpperChar(s[i])]
toLowerCase(s) == [i \in 1..Len(s) |-> LowerChar(s[i])]

\* s.replace(/\s+/g, ' ')
RECURSIVE CollapseSpaces(_)
CollapseSpaces(s) ==
  IF s = <<>> THEN <<>>
  ELSE IF IsSpace(Head(s))
       THEN <<" ">> \o CollapseSpaces(TrimLeft(s))
       ELSE <<Head(s)>> \o CollapseSpaces(Tail(s))

\* String.prototype.includes
Includes(s, sub) ==
  \E i \in 1..(Len(s) - Len(sub) + 1) : SubSeq(s, i, i + Len(sub) - 1) = sub

\* a string method called on a truthy non-string value: TypeError
Threw == <<"TypeError">>

normalizeNomeRevendedora(nome) ==
  IF Falsy(nome) THEN UNKNOWN
  ELSE IF nome.k # "str" THEN Threw
  ELSE toUpperCase(CollapseSpaces(Trim(nome.s)))

normalizeNomeProduto(nome) ==
  IF Falsy(nome) THEN UNKNOWN
  ELSE IF nome.k # "str" THEN Threw
  ELSE CollapseSpaces(Trim(nome.s))

\* s.replace(/[–—−]/g, '-'); the three dashes are the token "--"
UnifyHyphens(s) == [i \in 1..Len(s) |-> IF s[i] = "--" THEN "-" ELSE s[i]]

\* s.replace(/\s*-\s*/g, ' - ')
RECURSIVE SpaceHyphens(_)
SpaceHyphens(s) ==
  IF s = <<>> THEN <<>>
  ELSE IF TrimLeft(s) # <<>> /\ Head(TrimLeft(s)) = "-"
       THEN <<" ", "-", " ">> \o SpaceHyphens(TrimLeft(Tail(TrimLeft(s))))
       ELSE <<Head(s)>> \o SpaceHyphens(Tail(s))

normalizeMeioCaptacao(meio) ==
  IF Falsy(meio) THEN UNKNOWN
  ELSE IF meio.k # "str" THEN Threw
  ELSE SpaceHyphens(UnifyHyphens(CollapseSpaces(Trim(meio.s))))

categorizarEntrega(tipoEntrega) ==
  IF Falsy(tipoEntrega) THEN "UNKNOWN"
  ELSE IF tipoEntrega.k # "str" THEN "TypeError"
  ELSE LET normalizado == Trim(toLowerCase(tipoEntrega.s))
       IN IF \/ Includes(normalizado, <<"e", "n", "d", "e", "r", "e", "c,", "o">>)
             \/ Includes(normalizado, <<"e", "n", "d", "e", "r", "e", "c", "o">>)
          THEN "FRETE"
          ELSE IF \/ Includes(normalizado, <<"r", "e", "t", "i", "r", "a", "r">>)
                  \/ Includes(normalizado, <<"c", "e", "n", "t", "r", "a", "l">>)
          THEN "RETIRADA"
          ELSE "UNKNOWN"

normalizeTipo(tipo) ==
  IF Falsy(tipo) THEN "Outro"
  ELSE IF tipo.k # "str" THEN "TypeError"
  ELSE LET normalizado == Trim(toLowerCase(tipo.s))
       IN IF normalizado = <<"v", "e", "n", "d", "a">> THEN "Venda"
          ELSE IF normalizado = <<"b", "r", "i", "n", "d", "e">> THEN "Brinde"
          ELSE IF \/ normalizado = <<"d", "o", "a", "c,", "a~", "o">>
                  \/ normalizado = <<"d", "o", "a", "c", "a", "o">>
          THEN "Doacao"
          ELSE "Outro"

\* Number(value): the numeric coercion isNaN, Math.max and < apply
ToNumber(v) ==
  CASE v.k = "num" -> [nan |-> FALSE, n |-> v.n]
    [] v.k = "str" ->
         LET t == Trim(v.s)
         IN IF t = <<>> THEN [nan |-> FALSE, n |-> 0]
            ELSE IF AllDigits(t) THEN [nan |-> FALSE, n |-> StrToNat(t)]
            ELSE IF Head(t) = "-" /\ Len(t) > 1 /\ AllDigits(Tail(t))
                 THEN [nan |-> FALSE, n |-> 0 - StrToNat(Tail(t))]
            ELSE [nan |-> TRUE, n |-> 0]
    [] OTHER -> [nan |-> TRUE, n |-> 0]

\* mutant: negative values are kept
sanitizeNumber_NoClamp(value, defaultValue) ==
  IF value.k = "absent" \/ ToNumber(value).nan THEN defaultValue
  ELSE ToNumber(value).n

\* sanitizeNumber(value, defaultValue): NaN/absent -> default, else max(0, value)
sanitizeNumber(value, defaultValue) ==
  IF value.k = "absent" \/ ToNumber(value).nan THEN defaultValue
  ELSE IF ToNumber(value).n > 0 THEN ToNumber(value).n ELSE 0

\* value !== undefined && value < 0
IsNegative(value) ==
  value.k # "absent" /\ ~ToNumber(value).nan /\ ToNumber(value).n < 0

\* null
Null == <<"null">>

\* the text is a calendar date YYYY-MM-DD
IsIsoDate(s) ==
  /\ Len(s) = 10
  /\ s[5] = "-" /\ s[8] = "-"
  /\ \A i \in {1, 2, 3, 4, 6, 7, 9, 10} : IsDigit(s[i])
  /\ StrToNat(SubSeq(s, 6, 7)) \in 1..12
  /\ StrToNat(SubSeq(s, 9, 10)) \in 1..28

\* `${year}-${month}-${day}` with month and day padded to 2 digits
FormatDate(year, month, day) ==
  NatToStr(year) \o <<"-">> \o PadStart(NatToStr(month), 2, "0") \o <<"-">>
    \o PadStart(NatToStr(day), 2, "0")

\* normalizeDataCaptacao of an absent value or a text: a text that is no
\* date gives an invalid Date and null.  The local time zone is taken to be
\* UTC or east of it, where a date-only text keeps its calendar day.
normalizeDataCaptacao(data) ==
  CASE Falsy(data) -> Null
    [] data.k = "str" ->
         IF IsIsoDate(data.s)
         THEN FormatDate(StrToNat(SubSeq(data.s, 1, 4)), StrToNat(SubSeq(data.s, 6, 7)),
                         StrToNat(SubSeq(data.s, 9, 10)))
         ELSE Null

generateTransactionId(nomeRevendedora, cicloLabel, dataCaptacao) ==
  LET base == nomeRevendedora \o <<"|">> \o cicloLabel
  IN IF dataCaptacao # Null /\ dataCaptacao # <<>>
     THEN base \o <<"|">> \o dataCaptacao
     ELSE base

(***************************************************************************)
(* parseExcel.ts.  A file is a sequence of rows of cell texts.             *)
(***************************************************************************)
Fields ==
  {"Gerencia", "Setor", "CodigoRevendedora", "NomeRevendedora", "QuantidadePontos",
   "CicloCaptacao", "CodigoProduto", "NomeProduto", "Tipo", "DataCaptacao",
   "QuantidadeItens", "ValorPraticado", "MeioCaptacao", "TipoEntrega"}

\* XLSX.utils.sheet_to_json(sheet, {raw: false, defval: undefined}): the
\* formatted text of a cell, undefined for an empty one
ExcelCell(text) == IF text = <<>> THEN Absent ELSE Str(text)

\* parseCSVFile's cell: trimmed; '' -> undefined; /^\d+$/ -> parseInt
CsvCell(text) ==
  LET value == Trim(text)
  IN IF value = <<>> THEN Absent
     ELSE IF AllDigits(value) THEN Num(StrToNat(value))
     ELSE Str(value)

ExcelRows(file) == [i \in 1..Len(file) |-> [f \in Fields |-> ExcelCell(file[i][f])]]
CsvRows(file) == [i \in 1..Len(file) |-> [f \in Fields |-> CsvCell(file[i][f])]]

\* a / b in floating point, as a tagged fraction
JsDiv(a, b) ==
  IF b # 0 THEN [k |-> "finite", num |-> a, den |-> b]
  ELSE IF a = 0 THEN [k |-> "NaN", num |-> 0, den |-> 1]
  ELSE [k |-> "Infinity", num |-> 0, den |-> 1]

JsTimes(q, c) == [q EXCEPT !.num = q.num * c]

ClientePrefix == <<"C", "L", "I", "E", "N", "T", "E", "_">>

\* the calls of the normalize.ts functions in the body of rawData.forEach
RowValues(raw) ==
  [GerenciaCode |-> extractGerenciaCode(raw.Gerencia),
   nome |-> normalizeNomeRevendedora(raw.NomeRevendedora),
   QuantidadePontos |-> sanitizeNumber(raw.QuantidadePontos, 0),
   ciclo |-> parseCiclo(raw.CicloCaptacao),
   SKU |-> normalizeSKU(raw.CodigoProduto),
   NomeProduto |-> normalizeNomeProduto(raw.NomeProduto),
   Tipo |-> normalizeTipo(raw.Tipo),
   DataCaptacao |-> normalizeDataCaptacao(raw.DataCaptacao),
   QuantidadeItens |-> sanitizeNumber(raw.QuantidadeItens, 0),
   ValorPraticado |-> sanitizeNumber(raw.ValorPraticado, 0),
   MeioCaptacao |-> normalizeMeioCaptacao(raw.MeioCaptacao),
   EntregaCategoria |-> categorizarEntrega(raw.TipoEntrega)]

\* a string method called on a value that is no string throws a TypeError
RowThrows(raw, v) ==
  \/ raw.Setor.k \notin {"absent", "str"}
  \/ v.nome = Threw
  \/ v.ciclo.threw
  \/ v.NomeProduto = Threw
  \/ v.Tipo = "TypeError"
  \/ v.MeioCaptacao = Threw
  \/ v.EntregaCategoria = "TypeError"

\* the row the body of rawData.forEach pushes, v the values of RowValues;
\* fallback: the copy of the file that names a customer by CodigoRevendedora;
\* multiply: the copy that multiplies ValorPraticado by QuantidadeItens
BuildRow(raw, v, index, fallback, multiply) ==
  LET Setor ==
        IF raw.Setor.k = "absent" \/ Trim(raw.Setor.s) = <<>> THEN UNKNOWN
        ELSE Trim(raw.Setor.s)
      NomeRevendedora ==
        IF fallback /\ v.nome = UNKNOWN /\ ~Falsy(raw.CodigoRevendedora)
        THEN ClientePrefix \o Trim(String(raw.CodigoRevendedora))
        ELSE v.nome
      ValorLinhaVenda ==
        IF v.Tipo = "Venda"
        THEN (IF multiply THEN v.QuantidadeItens * v.ValorPraticado ELSE v.ValorPraticado)
        ELSE 0
      errors ==
        (IF v.GerenciaCode = UNKNOWN THEN <<"Gerencia invalida ou ausente">> ELSE <<>>)
        \o (IF NomeRevendedora = UNKNOWN THEN <<"Nome revendedora ausente">> ELSE <<>>)
        \o (IF v.ciclo.index = -1 THEN <<"Ciclo invalido ou ausente">> ELSE <<>>)
        \o (IF v.SKU = INVALID THEN <<"SKU invalido ou ausente">> ELSE <<>>)
        \o (IF IsNegative(raw.QuantidadeItens) THEN <<"Quantidade negativa">> ELSE <<>>)
        \o (IF IsNegative(raw.ValorPraticado) THEN <<"Valor praticado negativo">> ELSE <<>>)
  IN [GerenciaCode |-> v.GerenciaCode,
      Setor |-> Setor,
      NomeRevendedora |-> NomeRevendedora,
      QuantidadePontos |-> v.QuantidadePontos,
      CicloLabel |-> v.ciclo.label,
      CicloIndex |-> v.ciclo.index,
      SKU |-> v.SKU,
      NomeProduto |-> v.NomeProduto,
      Tipo |-> v.Tipo,
      DataCaptacao |-> v.DataCaptacao,
      QuantidadeItens |-> v.QuantidadeItens,
      ValorPraticado |-> v.ValorPraticado,
      ValorLinhaVenda |-> ValorLinhaVenda,
      MeioCaptacao |-> v.MeioCaptacao,
      EntregaCategoria |-> v.EntregaCategoria,
      TransactionId |-> generateTransactionId(NomeRevendedora, v.ciclo.label, v.DataCaptacao),
      rowIndex |-> index,
      hasErrors |-> Len(errors) > 0,
      errors |-> errors]

ErrorCategories ==
  <<"gerenciaInvalida", "cicloInvalido", "skuInvalido", "valorNegativo", "camposFaltantes">>

Count(errors, message) == Cardinality({i \in 1..Len(errors) : errors[i] = message})

\* the counters one row adds to quality.erros
RowErros(row) ==
  [gerenciaInvalida |-> Count(row.errors, "Gerencia invalida ou ausente"),
   cicloInvalido |-> Count(row.errors, "Ciclo invalido ou ausente"),
   skuInvalido |-> Count(row.errors, "SKU invalido ou ausente"),
   valorNegativo |-> Count(row.errors, "Quantidade negativa")
                     + Count(row.errors, "Valor praticado negativo"),
   camposFaltantes |-> Count(row.errors, "Nome revendedora ausente")]

InitialQuality(rawRows) ==
  [totalLinhas |-> Len(rawRows),
   linhasValidas |-> 0,
   linhasComErro |-> 0,
   percentualValidas |-> [k |-> "finite", num |-> 0, den |-> 1],
   erros |-> [c \in {ErrorCategories[i] : i \in 1..Len(ErrorCategories)} |-> 0],
   avisos |-> <<>>]

\* normalized.push(row) and the counters of quality
PushRow(acc, row) ==
  [threw |-> FALSE,
   normalized |-> Append(acc.normalized, row),
   quality |->
     [acc.quality EXCEPT
        !.erros = [c \in DOMAIN acc.quality.erros |-> acc.quality.erros[c] + RowErros(row)[c]],
        !.linhasComErro = IF row.hasErrors THEN @ + 1 ELSE @,
        !.linhasValidas = IF row.hasErrors THEN @ ELSE @ + 1]]

\* one turn of rawData.forEach; a TypeError ends normalizeData
RowStep(acc, raw, v, index, fallback, multiply) ==
  IF acc.threw \/ RowThrows(raw, v) THEN [acc EXCEPT !.threw = TRUE]
  ELSE PushRow(acc, BuildRow(raw, v, index, fallback, multiply))

\* rawData.forEach((raw, index) => ...) from row i on
RECURSIVE ForEachRow(_, _, _, _, _)
ForEachRow(rawRows, i, acc, fallback, multiply) ==
  IF i > Len(rawRows) THEN acc
  ELSE ForEachRow(rawRows, i + 1,
         RowStep(acc, rawRows[i], RowValues(rawRows[i]), i - 1, fallback, multiply),
         fallback, multiply)

\* "Adicionar avisos": one message, with its count, per checked counter
Avisos(erros) ==
  (IF erros.gerenciaInvalida > 0
   THEN <<[categoria |-> "gerenciaInvalida", n |-> erros.gerenciaInvalida]>> ELSE <<>>)
  \o (IF erros.cicloInvalido > 0
      THEN <<[categoria |-> "cicloInvalido", n |-> erros.cicloInvalido]>> ELSE <<>>)
  \o (IF erros.skuInvalido > 0
      THEN <<[categoria |-> "skuInvalido", n |-> erros.skuInvalido]>> ELSE <<>>)
  \o (IF erros.valorNegativo > 0
      THEN <<[categoria |-> "valorNegativo", n |-> erros.valorNegativo]>> ELSE <<>>)

\* what follows the forEach: the percentage and the warnings
FinishQuality(acc) ==
  IF acc.threw
  THEN [threw |-> TRUE, normalized |-> <<>>, quality |-> acc.quality]
  ELSE [threw |-> FALSE,
        normalized |-> acc.normalized,
        quality |->
          [acc.quality EXCEPT
             !.percentualValidas =
               JsTimes(JsDiv(acc.quality.linhasValidas, acc.quality.totalLinhas), 100),
             !.avisos = Avisos(acc.quality.erros)]]

NormalizeDataWith(rawRows, fallback, multiply) ==
  FinishQuality(ForEachRow(rawRows, 1,
    [threw |-> FALSE, normalized |-> <<>>, quality |-> InitialQuality(rawRows)],
    fallback, multiply))

\* normalizeData of the copy of parseExcel.ts with parseCSVFile
normalizeData(rawRows) == NormalizeDataWith(rawRows, TRUE, FALSE)

\* normalizeData of the other copy of parseExcel.ts
normalizeData0(rawRows) == NormalizeDataWith(rawRows, FALSE, TRUE)

\* Array.prototype.reduce((a, b) => a + b, 0)
RECURSIVE Sum(_)
Sum(s) == IF s = <<>> THEN 0 ELSE Head(s) + Sum(Tail(s))

\* the image of a field over an array, and the values a Set of it holds
Column(data, f) == [i \in 1..Len(data) |-> data[i][f]]
Distinct(s) == {s[i] : i \in 1..Len(s)}

IsVenda(r) == r.Tipo = "Venda"
SkuIsValid(r) == r.SKU # INVALID

\* the largest of the values, from 0 as Map.get(key) || 0 starts
MaxOf(S) == IF S = {} THEN 0 ELSE CHOOSE m \in S : \A x \in S : x <= m

\* the sum of f over a finite set of keys
RECURSIVE SumOver(_, _)
SumOver(S, f) ==
  IF S = {} THEN 0
  ELSE LET x == CHOOSE y \in S : TRUE IN f[x] + SumOver(S \ {x}, f)

\* total / count when count > 0, else 0
Average(total, count) ==
  IF count > 0 THEN JsDiv(total, count) ELSE [k |-> "finite", num |-> 0, den |-> 1]

(***************************************************************************)
(* aggregations.ts                                                         *)
(***************************************************************************)
\* mutant: the customers are counted over the rows the toggle selects
calculateOverviewMetrics_ToggledCustomers(data, incluirBrindesDoacao) ==
  LET dataParaAnalise == IF incluirBrindesDoacao THEN data ELSE SelectSeq(data, IsVenda)
      vendas == SelectSeq(data, IsVenda)
      receitaTotal == Sum(Column(vendas, "ValorLinhaVenda"))
      pontoKey(r) == r.NomeRevendedora \o <<"|">> \o r.CicloLabel
      pontoKeys == {pontoKey(data[i]) : i \in 1..Len(data)}
      pontosPorClienteCiclo ==
        [key \in pontoKeys |->
           MaxOf({data[i].QuantidadePontos : i \in {j \in 1..Len(data) : pontoKey(data[j]) = key}})]
  IN [receitaTotal |-> receitaTotal,
      ticketMedioPorCompra |->
        Average(receitaTotal, Cardinality(Distinct(Column(vendas, "TransactionId")))),
      ticketMedioPorCliente |->
        Average(receitaTotal, Cardinality(Distinct(Column(vendas, "NomeRevendedora")))),
      itensVendidos |-> Sum(Column(dataParaAnalise, "QuantidadeItens")),
      pontosTotais |-> SumOver(pontoKeys, pontosPorClienteCiclo),
      numeroTransacoes |-> Cardinality(Distinct(Column(data, "TransactionId"))),
      numeroClientes |-> Cardinality(Distinct(Column(dataParaAnalise, "NomeRevendedora"))),
      numeroSKUs |->
        Cardinality(Distinct(Column(SelectSeq(dataParaAnalise, SkuIsValid), "SKU")))]

\* mutant: the revenue is summed over the rows the toggle selects
calculateOverviewMetrics_ToggledRevenue(data, incluirBrindesDoacao) ==
  LET dataParaAnalise == IF incluirBrindesDoacao THEN data ELSE SelectSeq(data, IsVenda)
      receitaTotal == Sum(Column(dataParaAnalise, "ValorPraticado"))
  IN [receitaTotal |-> receitaTotal,
      ticketMedioPorCompra |->
        Average(receitaTotal, Cardinality(Distinct(Column(dataParaAnalise, "TransactionId")))),
      ticketMedioPorCliente |->
        Average(receitaTotal, Cardinality(Distinct(Column(dataParaAnalise, "NomeRevendedora")))),
      itensVendidos |-> Sum(Column(dataParaAnalise, "QuantidadeItens")),
      pontosTotais |-> 0,
      numeroTransacoes |-> Cardinality(Distinct(Column(data, "TransactionId"))),
      numeroClientes |-> Cardinality(Distinct(Column(data, "NomeRevendedora"))),
      numeroSKUs |->
        Cardinality(Distinct(Column(SelectSeq(dataParaAnalise, SkuIsValid), "SKU")))]

calculateOverviewMetrics(data, incluirBrindesDoacao) ==
  LET dataParaAnalise == IF incluirBrindesDoacao THEN data ELSE SelectSeq(data, IsVenda)
      vendas == SelectSeq(data, IsVenda)
      receitaTotal == Sum(Column(vendas, "ValorLinhaVenda"))
      \* key `${r.NomeRevendedora}|${r.CicloLabel}` -> max of QuantidadePontos
      pontoKey(r) == r.NomeRevendedora \o <<"|">> \o r.CicloLabel
      pontoKeys == {pontoKey(data[i]) : i \in 1..Len(data)}
      pontosPorClienteCiclo ==
        [key \in pontoKeys |->
           MaxOf({data[i].QuantidadePontos : i \in {j \in 1..Len(data) : pontoKey(data[j]) = key}})]
      \* receitaPorTransacao and receitaPorCliente: one entry per key of a Venda row
      receitaPorTransacao ==
        [id \in Distinct(Column(vendas, "TransactionId")) |->
           Sum(Column(SelectSeq(vendas, LAMBDA r : r.TransactionId = id), "ValorLinhaVenda"))]
      receitaPorCliente ==
        [nome \in Distinct(Column(vendas, "NomeRevendedora")) |->
           Sum(Column(SelectSeq(vendas, LAMBDA r : r.NomeRevendedora = nome), "ValorLinhaVenda"))]
  IN [receitaTotal |-> receitaTotal,
      ticketMedioPorCompra |->
        Average(SumOver(DOMAIN receitaPorTransacao, receitaPorTransacao),
                Cardinality(DOMAIN receitaPorTransacao)),
      ticketMedioPorCliente |->
        Average(SumOver(DOMAIN receitaPorCliente, receitaPorCliente),
                Cardinality(DOMAIN receitaPorCliente)),
      itensVendidos |-> Sum(Column(dataParaAnalise, "QuantidadeItens")),
      pontosTotais |-> SumOver(pontoKeys, pontosPorClienteCiclo),
      numeroTransacoes |-> Cardinality(Distinct(Column(data, "TransactionId"))),
      numeroClientes |-> Cardinality(Distinct(Column(data, "NomeRevendedora"))),
      numeroSKUs |->
        Cardinality(Distinct(Column(SelectSeq(dataParaAnalise, SkuIsValid), "SKU")))]

(***************************************************************************)
(* Numbers that are not integers: tagged fractions with a positive         *)
(* denominator, compared by cross-multiplication.                          *)
(***************************************************************************)
Fin(n) == [k |-> "finite", num |-> n, den |-> 1]

\* a / b for two fractions that are >= 0
QDiv(a, b) ==
  IF a.k # "finite" \/ b.k # "finite" THEN [k |-> "NaN", num |-> 0, den |-> 1]
  ELSE JsDiv(a.num * b.den, a.den * b.num)

\* a < b
QLt(a, b) ==
  CASE a.k = "NaN" \/ b.k = "NaN" -> FALSE
    [] a.k = "Infinity" -> FALSE
    [] b.k = "Infinity" -> TRUE
    [] OTHER -> a.num * b.den < b.num * a.den

\* a >= b
QGe(a, b) ==
  CASE a.k = "NaN" \/ b.k = "NaN" -> FALSE
    [] a.k = "Infinity" -> TRUE
    [] b.k = "Infinity" -> FALSE
    [] OTHER -> a.num * b.den >= b.num * a.den

\* a > b
QGt(a, b) == QLt(b, a)

\* arr.sort((a, b) => a - b)
RECURSIVE SortAsc(_)
SortAsc(arr) ==
  IF arr = <<>> THEN <<>>
  ELSE LET i == CHOOSE j \in 1..Len(arr) : \A l \in 1..Len(arr) : arr[j] <= arr[l]
       IN <<arr[i]>> \o SortAsc(SubSeq(arr, 1, i - 1) \o SubSeq(arr, i + 1, Len(arr)))

\* mutant: the order statistic below the index, without interpolation
percentile_NoInterpolation(arr, p) ==
  IF Len(arr) = 0 THEN Fin(0)
  ELSE Fin(arr[((p * (Len(arr) - 1)) \div 100) + 1])

\* percentile(arr, p) of a sorted array: index = (p / 100) * (n - 1),
\* weight = index - floor(index); the value in hundredths
percentile(arr, p) ==
  IF Len(arr) = 0 THEN Fin(0)
  ELSE LET index100 == p * (Len(arr) - 1)
           lower == index100 \div 100
           weight100 == index100 % 100
           upper == IF weight100 = 0 THEN lower ELSE lower + 1
       IN IF upper >= Len(arr) THEN Fin(arr[Len(arr)])
          ELSE [k |-> "finite",
                num |-> arr[lower + 1] * (100 - weight100) + arr[upper + 1] * weight100,
                den |-> 100]

\* the score of segmentClients: revenue, frequency, ticket, product mix
Score(c, p50Receita, p75Receita, p90Receita, p50Freq, p75Freq) ==
  (IF QGe(Fin(c.receitaTotal), p90Receita) THEN 40
   ELSE IF QGe(Fin(c.receitaTotal), p75Receita) THEN 30
   ELSE IF QGe(Fin(c.receitaTotal), p50Receita) THEN 20
   ELSE 10)
  + (IF QGe(Fin(c.numeroTransacoes), p75Freq) THEN 30
     ELSE IF QGe(Fin(c.numeroTransacoes), p50Freq) THEN 20
     ELSE 10)
  + (IF QGe(c.ticketMedioPorCompra, QDiv(p75Receita, p50Freq)) THEN 20
     ELSE IF QGe(c.ticketMedioPorCompra, QDiv(p50Receita, p50Freq)) THEN 10
     ELSE 0)
  + (IF c.numeroSKUsDistintos >= 10 THEN 10
     ELSE IF c.numeroSKUsDistintos >= 5 THEN 5
     ELSE 0)

\* mutant: the Potencial test comes before the VIP test
Segmento_PotencialFirst(c, p50Receita, p75Receita, p90Receita, p50Freq, p75Freq) ==
  IF QGe(Fin(c.receitaTotal), p75Receita) \/ QGe(Fin(c.numeroTransacoes), p75Freq)
  THEN "Potencial"
  ELSE IF QGe(Fin(c.receitaTotal), p90Receita) /\ QGe(Fin(c.numeroTransacoes), p75Freq)
  THEN "VIP"
  ELSE IF QLt(Fin(c.numeroTransacoes), p50Freq) /\ c.numeroCiclosAtivos <= 1
  THEN "Novo"
  ELSE IF /\ QLt(c.ticketMedioPorCompra, QDiv(p50Receita, p75Freq))
          /\ QGt(Fin(c.itensComprados), p75Freq)
  THEN "Cacador de Promo"
  ELSE IF QGe(c.percentualRetirada, Fin(80))
  THEN "Logistica Sensivel"
  ELSE "Ocasional"

\* the if / else-if chain "Segmentacao" of segmentClients
Segmento(c, p50Receita, p75Receita, p90Receita, p50Freq, p75Freq) ==
  IF QGe(Fin(c.receitaTotal), p90Receita) /\ QGe(Fin(c.numeroTransacoes), p75Freq)
  THEN "VIP"
  ELSE IF QGe(Fin(c.receitaTotal), p75Receita) \/ QGe(Fin(c.numeroTransacoes), p75Freq)
  THEN "Potencial"
  ELSE IF QLt(Fin(c.numeroTransacoes), p50Freq) /\ c.numeroCiclosAtivos <= 1
  THEN "Novo"
  ELSE IF /\ QLt(c.ticketMedioPorCompra, QDiv(p50Receita, p75Freq))
          /\ QGt(Fin(c.itensComprados), p75Freq)
  THEN "Cacador de Promo"
  ELSE IF QGe(c.percentualRetirada, Fin(80))
  THEN "Logistica Sensivel"
  ELSE "Ocasional"

\* clientes.map((c) => ({...c, score, segmento}))
SegmentWith(clientes, p50Receita, p75Receita, p90Receita, p50Freq, p75Freq) ==
  [i \in 1..Len(clientes) |->
     [clientes[i] EXCEPT
        !.score = Score(clientes[i], p50Receita, p75Receita, p90Receita, p50Freq, p75Freq),
        !.segmento = Segmento(clientes[i], p50Receita, p75Receita, p90Receita, p50Freq, p75Freq)]]

segmentClients(clientes) ==
  IF Len(clientes) = 0 THEN <<>>
  ELSE SegmentWith(clientes,
         percentile(SortAsc(Column(clientes, "receitaTotal")), 50),
         percentile(SortAsc(Column(clientes, "receitaTotal")), 75),
         percentile(SortAsc(Column(clientes, "receitaTotal")), 90),
         percentile(SortAsc(Column(clientes, "numeroTransacoes")), 50),
         percentile(SortAsc(Column(clientes, "numeroTransacoes")), 75))

\* c.canais.forEach: the first channel with the most occurrences, from
\* 'UNKNOWN' and 0; canais holds the channels in insertion order
CanalPrincipal(canais) ==
  LET maxOcorrencias == MaxOf({canais[i].count : i \in 1..Len(canais)})
      first == CHOOSE i \in 1..Len(canais) :
                 /\ canais[i].count = maxOcorrencias
                 /\ \A j \in 1..(i - 1) : canais[j].count # maxOcorrencias
  IN IF maxOcorrencias > 0
     THEN [canal |-> canais[first].canal, maxOcorrencias |-> maxOcorrencias]
     ELSE [canal |-> UNKNOWN, maxOcorrencias |-> 0]

\* the ClientMetrics calculateClientMetrics makes of one entry of clienteMap,
\* before the segmentation; the sizes of the entry's sets are numbers
ClientMetricsOf(c) ==
  [NomeRevendedora |-> c.NomeRevendedora,
   GerenciaCode |-> c.GerenciaCode,
   Setor |-> c.Setor,
   numeroTransacoes |-> c.transacoes,
   numeroCiclosAtivos |-> c.ciclos,
   itensComprados |-> c.itens,
   receitaTotal |-> c.receita,
   ticketMedioPorCompra |-> Average(c.receita, c.transacoes),
   ticketMedioPorCiclo |-> Average(c.receita, c.ciclos),
   numeroSKUsDistintos |-> c.skus,
   percentualFrete |->
     IF c.FRETE + c.RETIRADA + c.UNKNOWN > 0
     THEN JsTimes(JsDiv(c.FRETE, c.FRETE + c.RETIRADA + c.UNKNOWN), 100)
     ELSE Fin(0),
   percentualRetirada |->
     IF c.FRETE + c.RETIRADA + c.UNKNOWN > 0
     THEN JsTimes(JsDiv(c.RETIRADA, c.FRETE + c.RETIRADA + c.UNKNOWN), 100)
     ELSE Fin(0),
   canalPrincipal |-> CanalPrincipal(c.canais).canal,
   percentualCanalPrincipal |->
     IF Sum(Column(c.canais, "count")) > 0
     THEN JsTimes(JsDiv(CanalPrincipal(c.canais).maxOcorrencias,
                        Sum(Column(c.canais, "count"))), 100)
     ELSE Fin(0),
   pontosTotais |-> c.pontos,
   score |-> 0,
   segmento |-> "Novo"]

(***************************************************************************)
(* marketBasket.ts                                                         *)
(***************************************************************************)
\* the values of a Map's keys or of a Set, in insertion order
RECURSIVE InsertionOrder(_)
InsertionOrder(s) ==
  IF s = <<>> THEN <<>>
  ELSE <<Head(s)>> \o InsertionOrder(SelectSeq(Tail(s), LAMBDA x : x # Head(s)))

\* mutant: every SKU of every row is pushed, repeated ones too
generateBaskets_NoSet(data, incluirBrindesDoacao) ==
  LET dataParaAnalise == IF incluirBrindesDoacao THEN data ELSE SelectSeq(data, IsVenda)
      eligible == SelectSeq(dataParaAnalise, SkuIsValid)
      ids == InsertionOrder(Column(eligible, "TransactionId"))
  IN [b \in 1..Len(ids) |->
        [transactionId |-> ids[b],
         items |-> Column(SelectSeq(eligible, LAMBDA r : r.TransactionId = ids[b]), "SKU"),
         NomeRevendedora |->
           SelectSeq(eligible, LAMBDA r : r.TransactionId = ids[b])[1].NomeRevendedora,
         CicloLabel |->
           SelectSeq(eligible, LAMBDA r : r.TransactionId = ids[b])[1].CicloLabel,
         DataCaptacao |->
           SelectSeq(eligible, LAMBDA r : r.TransactionId = ids[b])[1].DataCaptacao]]

\* the entry of basketMap for one TransactionId: the first row sets the
\* descriptive fields, every row adds its SKU to the Set
BasketOf(id, rows) ==
  [transactionId |-> id,
   items |-> InsertionOrder(Column(rows, "SKU")),
   NomeRevendedora |-> rows[1].NomeRevendedora,
   CicloLabel |-> rows[1].CicloLabel,
   DataCaptacao |-> rows[1].DataCaptacao]

generateBaskets(data, incluirBrindesDoacao) ==
  LET dataParaAnalise == IF incluirBrindesDoacao THEN data ELSE SelectSeq(data, IsVenda)
      eligible == SelectSeq(dataParaAnalise, SkuIsValid)
      ids == InsertionOrder(Column(eligible, "TransactionId"))
  IN [b \in 1..Len(ids) |->
        BasketOf(ids[b], SelectSeq(eligible, LAMBDA r : r.TransactionId = ids[b]))]

\* the UTF-16 code order of the characters of a SKU
CharCode(c) == CHOOSE i \in 1..Len(DigitSeq) : DigitSeq[i] = c

\* a < b for strings, as Array.prototype.sort() compares
RECURSIVE StrLess(_, _)
StrLess(a, b) ==
  IF b = <<>> THEN FALSE
  ELSE IF a = <<>> THEN TRUE
  ELSE IF Head(a) = Head(b) THEN StrLess(Tail(a), Tail(b))
  ELSE CharCode(Head(a)) < CharCode(Head(b))

\* Array.from(new Set(items)).sort()
RECURSIVE SortStrings(_)
SortStrings(items) ==
  IF items = <<>> THEN <<>>
  ELSE LET i == CHOOSE j \in 1..Len(items) :
                  \A l \in 1..Len(items) : ~StrLess(items[l], items[j])
           least == items[i]
       IN <<least>> \o SortStrings(SelectSeq(items, LAMBDA x : x # least))

RECURSIVE Flatten(_)
Flatten(ss) == IF ss = <<>> THEN <<>> ELSE Head(ss) \o Flatten(Tail(ss))

\* the pairs <<itemA, itemB>> the two nested loops visit in one basket
PairsOfBasket(basket) ==
  LET uniqueItems == SortStrings(basket.items)
  IN Flatten([i \in 1..Len(uniqueItems) |->
                [j \in 1..(Len(uniqueItems) - i) |-> <<uniqueItems[i], uniqueItems[i + j]>>]])

\* the number of baskets that hold the item
ItemSupport(baskets, item) ==
  Cardinality({b \in 1..Len(baskets) :
                 \E i \in 1..Len(baskets[b].items) : baskets[b].items[i] = item})

\* skuNomes.get(item) || 'UNKNOWN'
SkuNome(data, item) ==
  IF \E i \in 1..Len(data) : data[i].SKU = item /\ data[i].SKU # INVALID
  THEN LET nome == data[CHOOSE i \in 1..Len(data) :
                          /\ data[i].SKU = item
                          /\ \A j \in 1..(i - 1) : data[j].SKU # item].NomeProduto
       IN IF nome = <<>> THEN UNKNOWN ELSE nome
  ELSE UNKNOWN

\* mutant: the lift divides by the support of itemA a second time
PairMetrics_LiftBySupportA(pair, occurrences, countA, countB, totalBaskets, data) ==
  [itemA |-> pair[1],
   itemB |-> pair[2],
   nomeA |-> SkuNome(data, pair[1]),
   nomeB |-> SkuNome(data, pair[2]),
   suporte |-> JsDiv(occurrences, totalBaskets),
   confianca |-> IF countA > 0 THEN JsDiv(occurrences, countA) ELSE Fin(0),
   lift |-> IF countA > 0
            THEN JsDiv(occurrences * totalBaskets, countA * countA)
            ELSE Fin(0),
   occurrences |-> occurrences]

\* step 3 for one pair: supportAB = occurrences / totalBaskets,
\* confianca = supportAB / supportA, lift = confianca / supportB
PairMetrics(pair, occurrences, countA, countB, totalBaskets, data) ==
  [itemA |-> pair[1],
   itemB |-> pair[2],
   nomeA |-> SkuNome(data, pair[1]),
   nomeB |-> SkuNome(data, pair[2]),
   suporte |-> JsDiv(occurrences, totalBaskets),
   confianca |-> IF countA > 0 THEN JsDiv(occurrences, countA) ELSE Fin(0),
   lift |-> IF countB > 0 /\ countA > 0
            THEN JsDiv(occurrences * totalBaskets, countA * countB)
            ELSE Fin(0),
   occurrences |-> occurrences]

\* |b.lift - a.lift| > 0.01
LiftsDiffer(a, b) ==
  LET d == b.lift.num * a.lift.den - a.lift.num * b.lift.den
  IN (IF d >= 0 THEN d ELSE 0 - d) * 100 > a.lift.den * b.lift.den

\* the comparator of pairs.sort is > 0: b comes before a
PairAfter(a, b) ==
  IF LiftsDiffer(a, b) THEN QLt(a.lift, b.lift) ELSE QLt(a.suporte, b.suporte)

\* pairs.sort(comparator): stable
RECURSIVE SortPairs(_)
SortPairs(pairs) ==
  IF pairs = <<>> THEN <<>>
  ELSE LET sorted == SortPairs(SubSeq(pairs, 1, Len(pairs) - 1))
           x == pairs[Len(pairs)]
           before == {i \in 1..Len(sorted) : PairAfter(sorted[i], x)}
           at == IF before = {} THEN Len(sorted) + 1
                 ELSE CHOOSE i \in before : \A j \in before : i <= j
       IN SubSeq(sorted, 1, at - 1) \o <<x>> \o SubSeq(sorted, at, Len(sorted))

\* mutant: a pair is counted once per basket for each order of its items
calculateFrequentPairs_BothOrders(baskets, data, minSupport) ==
  IF Len(baskets) = 0 THEN <<>>
  ELSE LET visited == Flatten([b \in 1..Len(baskets) |-> PairsOfBasket(baskets[b])])
           both == visited \o [i \in 1..Len(visited) |-> <<visited[i][2], visited[i][1]>>]
           keys == InsertionOrder(both)
           all == [p \in 1..Len(keys) |->
                     PairMetrics(keys[p],
                       Cardinality({i \in 1..Len(both) : both[i] = keys[p]}),
                       ItemSupport(baskets, keys[p][1]),
                       ItemSupport(baskets, keys[p][2]),
                       Len(baskets), data)]
       IN SortPairs(SelectSeq(all, LAMBDA q : ~QLt(q.suporte, minSupport)))

calculateFrequentPairs(baskets, data, minSupport) ==
  IF Len(baskets) = 0 THEN <<>>
  ELSE LET visited == Flatten([b \in 1..Len(baskets) |-> PairsOfBasket(baskets[b])])
           keys == InsertionOrder(visited)
           all == [p \in 1..Len(keys) |->
                     PairMetrics(keys[p],
                       Cardinality({i \in 1..Len(visited) : visited[i] = keys[p]}),
                       ItemSupport(baskets, keys[p][1]),
                       ItemSupport(baskets, keys[p][2]),
                       Len(baskets), data)]
       IN SortPairs(SelectSeq(all, LAMBDA q : ~QLt(q.suporte, minSupport)))

(***************************************************************************)
(* regression.ts.  The sums of the least-squares fit are integers, so the  *)
(* slope, the intercept and R^2 are kept as exact fractions.               *)
(***************************************************************************)
\* a + b and a - b for two finite fractions
QAdd(a, b) ==
  IF a.den = b.den THEN [k |-> "finite", num |-> a.num + b.num, den |-> a.den]
  ELSE [k |-> "finite", num |-> a.num * b.den + b.num * a.den, den |-> a.den * b.den]

QSub(a, b) == QAdd(a, [b EXCEPT !.num = 0 - b.num])

Abs(n) == IF n >= 0 THEN n ELSE 0 - n

\* Math.round of a finite fraction: the nearest integer, halves upwards
MathRound(q) == (2 * q.num + q.den) \div (2 * q.den)

RECURSIVE GCD(_, _)
GCD(a, b) == IF b = 0 THEN a ELSE GCD(b, a % b)

\* the same finite fraction in lowest terms
Reduce(q) ==
  LET g == GCD(Abs(q.num), q.den)
  IN [k |-> "finite", num |-> q.num \div g, den |-> q.den \div g]

\* LinearRegression.predict
predict(model, x) == QAdd(JsTimes(model.slope, x), model.intercept)

\* LinearRegression.fit, for arrays of the same length that are not empty.
\* With n * numerator = n * Sxy - Sx * Sy and n * denominator = n * Sxx - Sx^2
\* the slope and the intercept are written over the denominator
\* n * (n * Sxx - Sx^2), or over n when the slope is set to 0.
fit(x, y) ==
  LET n == Len(x)
      Sx == Sum(x)
      Sy == Sum(y)
      numerator == n * Sum([i \in 1..n |-> x[i] * y[i]]) - Sx * Sy
      denominator == n * Sum([i \in 1..n |-> x[i] * x[i]]) - Sx * Sx
      slope == IF denominator # 0 THEN JsDiv(n * numerator, n * denominator)
               ELSE JsDiv(0, n)
      intercept == IF denominator # 0
                   THEN JsDiv(denominator * Sy - numerator * Sx, n * denominator)
                   ELSE JsDiv(Sy, n)
      line == [slope |-> slope, intercept |-> intercept]
      ssRes == JsDiv(Sum([i \in 1..n |->
                            (y[i] * slope.den - predict(line, x[i]).num)
                              * (y[i] * slope.den - predict(line, x[i]).num)]),
                     slope.den * slope.den)
      ssTot == JsDiv(Sum([i \in 1..n |-> (n * y[i] - Sy) * (n * y[i] - Sy)]), n * n)
  IN [slope |-> slope,
      intercept |-> intercept,
      r2 |-> IF ssTot.num # 0 THEN QSub(Fin(1), Reduce(QDiv(ssRes, ssTot))) ELSE Fin(0)]

\* LinearRegression.mae, for arrays of the same length that are not empty
mae(model, x, y) ==
  JsDiv(Sum([i \in 1..Len(x) |-> Abs(y[i] * model.slope.den - predict(model, x[i]).num)]),
        model.slope.den * Len(x))

\* historico.sort((a, b) => a.cicloIndex - b.cicloIndex): stable
RECURSIVE SortByCicloIndex(_)
SortByCicloIndex(entries) ==
  IF entries = <<>> THEN <<>>
  ELSE LET i == CHOOSE j \in 1..Len(entries) :
                  /\ \A l \in 1..Len(entries) : entries[j].cicloIndex <= entries[l].cicloIndex
                  /\ \A l \in 1..(j - 1) : entries[l].cicloIndex # entries[j].cicloIndex
       IN <<entries[i]>>
            \o SortByCicloIndex(SubSeq(entries, 1, i - 1) \o SubSeq(entries, i + 1, Len(entries)))

\* the values of skuCicloMap.get(sku), one entry per CicloLabel, and sorted
Historico(rows) ==
  LET labels == InsertionOrder(Column(rows, "CicloLabel"))
  IN SortByCicloIndex(
       [l \in 1..Len(labels) |->
          [cicloLabel |-> labels[l],
           cicloIndex |-> SelectSeq(rows, LAMBDA r : r.CicloLabel = labels[l])[1].CicloIndex,
           quantidade |->
             Sum(Column(SelectSeq(rows, LAMBDA r : r.CicloLabel = labels[l]),
                        "QuantidadeItens")),
           nomeProduto |->
             SelectSeq(rows, LAMBDA r : r.CicloLabel = labels[l])[1].NomeProduto]])

\* x and y of a history: the cycle offsets and the quantities
OffsetsOf(historico) ==
  LET minIndex == CHOOSE m \in Distinct(Column(historico, "cicloIndex")) :
                    \A c \in Distinct(Column(historico, "cicloIndex")) : m <= c
  IN [h \in 1..Len(historico) |-> historico[h].cicloIndex - minIndex]

\* model.slope against a tenth of the mean of y
Tendencia(model, y) ==
  IF QGt(model.slope, JsDiv(Sum(y), Len(y) * 10)) THEN "crescimento"
  ELSE IF QLt(model.slope, JsDiv(0 - Sum(y), Len(y) * 10)) THEN "declinio"
  ELSE "estavel"

Confianca(model) ==
  IF QGe(model.r2, JsDiv(7, 10)) THEN "alta"
  ELSE IF QGe(model.r2, JsDiv(4, 10)) THEN "media"
  ELSE "baixa"

\* the prediction pushed for one SKU, from the fitted model
PredictionOf(sku, historico, x, y, model) ==
  LET previsaoRaw == predict(model, MaxOf(Distinct(x)) + 1)
  IN [SKU |-> sku,
      NomeProduto |-> historico[1].nomeProduto,
      historico |-> [h \in 1..Len(historico) |->
                       [ciclo |-> historico[h].cicloLabel,
                        cicloDeux |-> historico[h].cicloIndex,
                        quantidade |-> historico[h].quantidade]],
      previsaoProximoCiclo |-> MathRound(IF previsaoRaw.num > 0 THEN previsaoRaw ELSE Fin(0)),
      tendencia |-> Tendencia(model, y),
      confianca |-> Confianca(model),
      erro |-> JsDiv(MathRound(JsTimes(mae(model, x, y), 10)), 10)]

\* predictions.sort((a, b) => b.previsaoProximoCiclo - a.previsaoProximoCiclo)
RECURSIVE SortByPrevisao(_)
SortByPrevisao(predictions) ==
  IF predictions = <<>> THEN <<>>
  ELSE LET i == CHOOSE j \in 1..Len(predictions) :
                  /\ \A l \in 1..Len(predictions) :
                       predictions[j].previsaoProximoCiclo >= predictions[l].previsaoProximoCiclo
                  /\ \A l \in 1..(j - 1) :
                       predictions[l].previsaoProximoCiclo # predictions[j].previsaoProximoCiclo
       IN <<predictions[i]>>
            \o SortByPrevisao(SubSeq(predictions, 1, i - 1)
                                \o SubSeq(predictions, i + 1, Len(predictions)))

\* the rows generatePredictions keeps for its map
HasSkuAndCiclo(r) == r.SKU # INVALID /\ r.CicloIndex # -1

generatePredictions(data, incluirBrindesDoacao, minCiclos) ==
  LET dataParaAnalise == IF incluirBrindesDoacao THEN data ELSE SelectSeq(data, IsVenda)
      eligible == SelectSeq(dataParaAnalise, HasSkuAndCiclo)
      skus == InsertionOrder(Column(eligible, "SKU"))
      historicos == [s \in 1..Len(skus) |->
                       Historico(SelectSeq(eligible, LAMBDA r : r.SKU = skus[s]))]
      kept == SelectSeq([s \in 1..Len(skus) |-> s],
                        LAMBDA s : Len(historicos[s]) >= minCiclos)
  IN SortByPrevisao(
       [p \in 1..Len(kept) |->
          PredictionOf(skus[kept[p]],
                       historicos[kept[p]],
                       OffsetsOf(historicos[kept[p]]),
                       Column(historicos[kept[p]], "quantidade"),
                       fit(OffsetsOf(historicos[kept[p]]),
                           Column(historicos[kept[p]], "quantidade")))])

(***************************************************************************)
(* aggregations.ts: product ranking, client metrics and cycle rollup.      *)
(***************************************************************************)
\* arr.sort((a, b) => b.receita - a.receita): stable
RECURSIVE SortByReceita(_)
SortByReceita(arr) ==
  IF arr = <<>> THEN <<>>
  ELSE LET i == CHOOSE j \in 1..Len(arr) :
                  /\ \A l \in 1..Len(arr) : arr[j].receita >= arr[l].receita
                  /\ \A l \in 1..(j - 1) : arr[l].receita # arr[j].receita
       IN <<arr[i]>> \o SortByReceita(SubSeq(arr, 1, i - 1) \o SubSeq(arr, i + 1, Len(arr)))

\* the ProductRanking of the rows of one SKU
ProductOf(sku, rows) ==
  [SKU |-> sku,
   NomeProduto |-> rows[1].NomeProduto,
   quantidade |-> Sum(Column(rows, "QuantidadeItens")),
   receita |-> Sum(Column(SelectSeq(rows, IsVenda), "ValorLinhaVenda")),
   numeroTransacoes |-> Cardinality(Distinct(Column(rows, "TransactionId"))),
   numeroClientes |-> Cardinality(Distinct(Column(rows, "NomeRevendedora")))]

\* produtoMap after forEach over the rows, in insertion order
Produtos(rows) ==
  LET skus == InsertionOrder(Column(rows, "SKU"))
  IN [p \in 1..Len(skus) |-> ProductOf(skus[p], SelectSeq(rows, LAMBDA r : r.SKU = skus[p]))]

\* mutant: the rows without a valid SKU are ranked too
calculateProductRanking_KeepsInvalid(data, incluirBrindesDoacao) ==
  SortByReceita(Produtos(IF incluirBrindesDoacao THEN data ELSE SelectSeq(data, IsVenda)))

calculateProductRanking(data, incluirBrindesDoacao) ==
  SortByReceita(
    Produtos(SelectSeq(IF incluirBrindesDoacao THEN data ELSE SelectSeq(data, IsVenda),
                       SkuIsValid)))

\* the Map canais of the rows of a client, in insertion order
Canais(rows) ==
  LET keys == InsertionOrder(Column(rows, "MeioCaptacao"))
  IN [p \in 1..Len(keys) |->
        [canal |-> keys[p],
         count |-> Len(SelectSeq(rows, LAMBDA r : r.MeioCaptacao = keys[p]))]]

\* the number of rows of a delivery category
Entregas(rows, categoria) == Len(SelectSeq(rows, LAMBDA r : r.EntregaCategoria = categoria))

\* mutant: only the sale rows of a client count as transactions
ClienteOf_SaleTransactions(nome, rows, incluirBrindesDoacao) ==
  [NomeRevendedora |-> nome,
   GerenciaCode |-> rows[1].GerenciaCode,
   Setor |-> rows[1].Setor,
   transacoes |-> Cardinality(Distinct(Column(SelectSeq(rows, IsVenda), "TransactionId"))),
   ciclos |-> Cardinality(Distinct(Column(rows, "CicloLabel"))),
   itens |-> Sum(Column(IF incluirBrindesDoacao THEN rows ELSE SelectSeq(rows, IsVenda),
                        "QuantidadeItens")),
   receita |-> Sum(Column(SelectSeq(rows, IsVenda), "ValorLinhaVenda")),
   skus |-> Cardinality(Distinct(Column(SelectSeq(rows, SkuIsValid), "SKU"))),
   FRETE |-> Entregas(rows, "FRETE"),
   RETIRADA |-> Entregas(rows, "RETIRADA"),
   UNKNOWN |-> Entregas(rows, "UNKNOWN"),
   canais |-> Canais(rows),
   pontos |-> MaxOf(Distinct(Column(rows, "QuantidadePontos")))]

\* the entry of clienteMap of one customer after data.forEach: every row
\* of the customer adds its transaction, cycle and channel, and pontos is
\* the largest QuantidadePontos of the rows
ClienteOf(nome, rows, incluirBrindesDoacao) ==
  [NomeRevendedora |-> nome,
   GerenciaCode |-> rows[1].GerenciaCode,
   Setor |-> rows[1].Setor,
   transacoes |-> Cardinality(Distinct(Column(rows, "TransactionId"))),
   ciclos |-> Cardinality(Distinct(Column(rows, "CicloLabel"))),
   itens |-> Sum(Column(IF incluirBrindesDoacao THEN rows ELSE SelectSeq(rows, IsVenda),
                        "QuantidadeItens")),
   receita |-> Sum(Column(SelectSeq(rows, IsVenda), "ValorLinhaVenda")),
   skus |-> Cardinality(Distinct(Column(SelectSeq(rows, SkuIsValid), "SKU"))),
   FRETE |-> Entregas(rows, "FRETE"),
   RETIRADA |-> Entregas(rows, "RETIRADA"),
   UNKNOWN |-> Entregas(rows, "UNKNOWN"),
   canais |-> Canais(rows),
   pontos |-> MaxOf(Distinct(Column(rows, "QuantidadePontos")))]

\* the ClientMetrics of every customer of the rows, then segmentClients
calculateClientMetrics(data, incluirBrindesDoacao) ==
  LET nomes == InsertionOrder(Column(data, "NomeRevendedora"))
  IN segmentClients(
       [p \in 1..Len(nomes) |->
          ClientMetricsOf(
            ClienteOf(nomes[p],
                      SelectSeq(data, LAMBDA r : r.NomeRevendedora = nomes[p]),
                      incluirBrindesDoacao))])

\* arr.sort((a, b) => a.index - b.index): stable
RECURSIVE SortByIndex(_)
SortByIndex(arr) ==
  IF arr = <<>> THEN <<>>
  ELSE LET i == CHOOSE j \in 1..Len(arr) :
                  /\ \A l \in 1..Len(arr) : arr[j].index <= arr[l].index
                  /\ \A l \in 1..(j - 1) : arr[l].index # arr[j].index
       IN <<arr[i]>> \o SortByIndex(SubSeq(arr, 1, i - 1) \o SubSeq(arr, i + 1, Len(arr)))

\* the entry of cicloMap of one CicloLabel
CicloOf(label, rows, incluirBrindesDoacao) ==
  [ciclo |-> label,
   index |-> rows[1].CicloIndex,
   receita |-> Sum(Column(SelectSeq(rows, IsVenda), "ValorLinhaVenda")),
   itens |-> Sum(Column(IF incluirBrindesDoacao THEN rows ELSE SelectSeq(rows, IsVenda),
                        "QuantidadeItens")),
   numeroTransacoes |-> Cardinality(Distinct(Column(rows, "TransactionId"))),
   numeroClientes |-> Cardinality(Distinct(Column(rows, "NomeRevendedora")))]

\* mutant: the rows without a cycle are left out of the rollup
groupByCiclo_KnownCycles(data, incluirBrindesDoacao) ==
  LET known == SelectSeq(data, LAMBDA r : r.CicloIndex # -1)
      labels == InsertionOrder(Column(known, "CicloLabel"))
  IN SortByIndex(
       [p \in 1..Len(labels) |->
          CicloOf(labels[p], SelectSeq(known, LAMBDA r : r.CicloLabel = labels[p]),
                  incluirBrindesDoacao)])

groupByCiclo(data, incluirBrindesDoacao) ==
  LET labels == InsertionOrder(Column(data, "CicloLabel"))
  IN SortByIndex(
       [p \in 1..Len(labels) |->
          CicloOf(labels[p], SelectSeq(data, LAMBDA r : r.CicloLabel = labels[p]),
                  incluirBrindesDoacao)])

(***************************************************************************)
(* applyFilters (parseExcel.ts) and the filters of store.ts.               *)
(***************************************************************************)
defaultFilters ==
  [gerenciaCodes |-> <<>>,
   setores |-> <<>>,
   ciclos |-> <<>>,
   meiosCaptacao |-> <<>>,
   entregaCategorias |-> <<>>,
   searchRevendedora |-> <<>>,
   searchProduto |-> <<>>,
   incluirBrindesDoacao |-> FALSE]

\* Array.prototype.includes
InArray(arr, x) == \E i \in 1..Len(arr) : arr[i] = x

RowPasses(row, f) ==
  /\ Len(f.gerenciaCodes) > 0 => InArray(f.gerenciaCodes, row.GerenciaCode)
  /\ Len(f.setores) > 0 => InArray(f.setores, row.Setor)
  /\ Len(f.ciclos) > 0 => InArray(f.ciclos, row.CicloLabel)
  /\ Len(f.meiosCaptacao) > 0 => InArray(f.meiosCaptacao, row.MeioCaptacao)
  /\ Len(f.entregaCategorias) > 0 => InArray(f.entregaCategorias, row.EntregaCategoria)
  /\ f.searchRevendedora # <<>> =>
       Includes(row.NomeRevendedora, toUpperCase(f.searchRevendedora))
  /\ f.searchProduto # <<>> =>
       \/ Includes(toUpperCase(row.NomeProduto), toUpperCase(f.searchProduto))
       \/ Includes(row.SKU, f.searchProduto)

applyFilters(data, f) == SelectSeq(data, LAMBDA row : RowPasses(row, f))

(***************************************************************************)
(* store.ts: the initial state of the zustand store.                       *)
(***************************************************************************)
StoreInit ==
  /\ rawData = <<>>
  /\ dataQuality = <<>>
  /\ isLoading = FALSE
  /\ error = "null"
  /\ filters = defaultFilters

\* no parse in flight
NoPromise ==
  [state |-> "none", parser |-> "none", file |-> <<>>,
   data |-> <<>>, quality |-> <<>>, reason |-> "null"]

\* the application before any upload
AppIdle ==
  /\ StoreInit
  /\ promise = NoPromise
  /\ metrics = <<>>

\* no call of segmentClients
SegIdle ==
  /\ clientesIn = <<>>
  /\ segmentsOut = <<>>

\* no call of the basket and prediction functions
MineIdle ==
  /\ recordsIn = <<>>
  /\ incluirIn = FALSE
  /\ minSupportIn = [k |-> "finite", num |-> 1, den |-> 1000]
  /\ basketsOut = <<>>
  /\ pairsOut = <<>>
  /\ predictionsOut = <<>>

\* no call of a normalize.ts function
NormIdle ==
  /\ nArg = Absent
  /\ nFn = "none"
  /\ skuOut = <<>>
  /\ gerOut = <<>>
  /\ cicloOut = CicloUnknown

\* no call of applyFilters and the aggregations
AggIdle ==
  /\ filtersIn = defaultFilters
  /\ filteredOut = <<>>
  /\ overviewOut = <<>>
  /\ rankingOut = <<>>
  /\ clientMetricsOut = <<>>
  /\ ciclosOut = <<>>

NoTimer == [armed |-> FALSE, value |-> <<>>]

\* no upload started and no search typed
UiIdle ==
  /\ uploads = <<>>
  /\ lastStore = [op |-> "create", id |-> 0]
  /\ timers = [searchRevendedora |-> NoTimer, searchProduto |-> NoTimer]
  /\ quiet = FALSE


(***************************************************************************)
(* The normalize.ts functions applied to bounded inputs.                   *)
(***************************************************************************)
NormAlphabet == {"0", "7", "a", " "}
NumAlphabet == {"0", "1", "9"}

StrInputs == {Str(s) : s \in SeqsUpTo(NormAlphabet, MaxStrLen)}
NumInputs == {Num(StrToNat(s)) : s \in SeqsUpTo(NumAlphabet, MaxNumDigits)}

CicloPre == {<<>>, <<" ">>, <<"x">>, <<"1">>}
CicloMes == {<<>>, <<"0">>, <<"1">>, <<"9">>, <<"0", "0">>, <<"0", "1">>,
             <<"1", "2">>, <<"1", "3">>}
CicloSeps == {<<"/">>, <<"-">>, <<".">>}
CicloAno == {<<"1", "9", "9", "9">>, <<"2", "0", "0", "0">>, <<"2", "0", "2", "6">>,
             <<"2", "1", "0", "0">>, <<"2", "1", "0", "1">>, <<"2", "0", "2">>}
CicloPost == {<<>>, <<" ">>, <<"0">>}

CicloInputs ==
  {Str(pre \o mes \o sep \o ano \o post) :
     pre \in CicloPre, mes \in CicloMes, sep \in CicloSeps, ano \in CicloAno,
     post \in CicloPost}

\* the inputs of src/test/normalize.test.ts
TestInputs ==
  {Num(1234), Str(<<"1", "2", "3", "4">>), Num(12345), Str(<<"1", "2", "3", "4", "5">>),
   Str(<<"a", "b", "c">>), Num(13706),
   Str(<<"1", "3", "7", "0", "6", " ", "-", " ", "N", "O", "M", "E">>),
   Str(<<"S", "E", "M", " ", "N", "U", "M", "E", "R", "O", "S">>),
   Str(<<"0", "1", "/", "2", "0", "2", "6">>), Str(<<"1", "2", "-", "2", "0", "2", "5">>),
   Str(<<"1", "3", "/", "2", "0", "2", "6">>)}

NormInputs ==
  {Absent, NaNv} \cup StrInputs \cup NumInputs \cup CicloInputs \cup TestInputs

NormInit ==
  /\ nArg \in NormInputs
  /\ nFn = "none"
  /\ skuOut = <<>>
  /\ gerOut = <<>>
  /\ cicloOut = CicloUnknown
  /\ AppIdle
  /\ SegIdle
  /\ MineIdle
  /\ AggIdle
  /\ UiIdle

ApplyNormalizeSKU ==
  /\ nFn = "none"
  /\ nFn' = "normalizeSKU"
  /\ skuOut' = normalizeSKU(nArg)
  /\ UNCHANGED <<nArg, gerOut, cicloOut>>
  /\ UNCHANGED <<appVars, segVars, mineVars, aggVars, uiVars>>

ApplyExtractGerenciaCode ==
  /\ nFn = "none"
  /\ nFn' = "extractGerenciaCode"
  /\ gerOut' = extractGerenciaCode(nArg)
  /\ UNCHANGED <<nArg, skuOut, cicloOut>>
  /\ UNCHANGED <<appVars, segVars, mineVars, aggVars, uiVars>>

ApplyParseCiclo ==
  /\ nFn = "none"
  /\ nFn' = "parseCiclo"
  /\ cicloOut' = parseCiclo(nArg)
  /\ UNCHANGED <<nArg, skuOut, gerOut>>
  /\ UNCHANGED <<appVars, segVars, mineVars, aggVars, uiVars>>

NormNext == ApplyNormalizeSKU \/ ApplyExtractGerenciaCode \/ ApplyParseCiclo

SpecNorm == NormInit /\ [][NormNext]_vars

(***************************************************************************)
(* The application: FileUpload.handleFile, the parsers of parseExcel.ts    *)
(* and their FileReader callbacks, the store and the overview.             *)
(*                                                                         *)
(* A file is the sequence of its data rows, a row the text of its cells    *)
(* under the 14 headers ("" for an empty cell).  One parse is in flight at *)
(* a time, started while no data is loaded.                                *)
(***************************************************************************)
MaxRows == 2

BaseRow ==
  [Gerencia |-> <<"1", "3", "7", "0", "6">>,
   Setor |-> <<"S", "1">>,
   CodigoRevendedora |-> <<>>,
   NomeRevendedora |-> <<"A", "n", "a">>,
   QuantidadePontos |-> <<"1", "0">>,
   CicloCaptacao |-> <<"0", "1", "/", "2", "0", "2", "6">>,
   CodigoProduto |-> <<"1", "2", "3", "4">>,
   NomeProduto |-> <<"B", "a", "t", "o", "m">>,
   Tipo |-> <<"V", "e", "n", "d", "a">>,
   DataCaptacao |-> <<>>,
   QuantidadeItens |-> <<"3">>,
   ValorPraticado |-> <<"5", "5", "4", "1">>,
   MeioCaptacao |-> <<"A", "p", "p">>,
   TipoEntrega |-> <<"r", "e", "t", "i", "r", "a", "r">>]

\* the texts a cell takes besides the one of BaseRow: empty, malformed,
\* out of range, negative, all digits
OtherTexts ==
  [Gerencia |-> {<<>>, <<"a", "b">>},
   Setor |-> {<<>>, <<"1", "2">>},
   CodigoRevendedora |-> {},
   NomeRevendedora |-> {<<"B", "i", "a">>},
   QuantidadePontos |-> {<<"-", "5">>, <<"2", "0">>},
   CicloCaptacao |-> {<<>>, <<"1", "3", "/", "2", "0", "2", "6">>,
                      <<"0", "2", "/", "2", "0", "2", "6">>,
                      <<"2", "0", "2", "6", "0", "1">>},
   CodigoProduto |-> {<<>>, <<"1", "2", "3", "4", "5", "6">>, <<"a", "b">>},
   NomeProduto |-> {<<>>},
   Tipo |-> {<<"b", "r", "i", "n", "d", "e">>, <<>>},
   DataCaptacao |-> {<<"2", "0", "2", "6", "-", "0", "1", "-", "1", "5">>, <<"x">>},
   QuantidadeItens |-> {<<"-", "1">>, <<"x">>},
   ValorPraticado |-> {<<"-", "1", "0", "0">>, <<>>},
   MeioCaptacao |-> {<<>>},
   TipoEntrega |-> {<<"e", "n", "d", "e", "r", "e", "c", "o">>}]

\* rows without a customer name, with and without a customer code
NamelessRows ==
  {[BaseRow EXCEPT !.NomeRevendedora = <<>>, !.CodigoRevendedora = code] :
     code \in {<<>>, <<"7", "7">>, <<"a", "b">>}}

\* rows whose customer name or cycle text holds a "|"
PipeRows ==
  {[BaseRow EXCEPT !.NomeRevendedora = <<"A", "|", "B">>, !.QuantidadePontos = <<"2", "0">>],
   [BaseRow EXCEPT !.NomeRevendedora = <<"A">>,
                   !.CicloCaptacao = <<"B", "|", "0", "1", "/", "2", "0", "2", "6">>]}

TextRows ==
  {BaseRow}
  \cup PipeRows
  \cup UNION {{[BaseRow EXCEPT ![f] = text] : text \in OtherTexts[f]} : f \in Fields}
  \cup NamelessRows

Files == SeqsUpTo(TextRows, MaxRows)

FileNames == {"xlsx", "xls", "csv"}

SearchTexts == {<<>>, <<"a", "n">>, <<"z">>}

Init ==
  /\ nArg = Absent
  /\ nFn = "none"
  /\ skuOut = <<>>
  /\ gerOut = <<>>
  /\ cicloOut = CicloUnknown
  /\ StoreInit
  /\ promise = NoPromise
  /\ metrics = <<>>
  /\ SegIdle
  /\ MineIdle
  /\ AggIdle
  /\ UiIdle

Pending(parser, file) == [NoPromise EXCEPT !.state = "pending", !.parser = parser, !.file = file]

\* FileUpload.handleFile up to its await
handleFile(name, file) ==
  /\ rawData = <<>>
  /\ promise.state = "none"
  /\ IF name \notin {"xlsx", "xls"}
     THEN /\ error' = "Por favor, selecione um arquivo Excel (.xlsx ou .xls)"
          /\ isLoading' = FALSE
          /\ UNCHANGED promise
     ELSE \* setLoading(true); setError(null)
          /\ error' = "null"
          /\ isLoading' = FALSE
          /\ promise' = Pending("parseExcelFile", file)
  /\ UNCHANGED <<rawData, dataQuality, filters, metrics>>
  /\ UNCHANGED <<normVars, segVars, mineVars, aggVars, uiVars>>

\* parseCSVFile(file) up to reader.readAsText
parseCSVFile(file) ==
  /\ rawData = <<>>
  /\ promise.state = "none"
  /\ promise' = Pending("parseCSVFile", file)
  /\ UNCHANGED <<storeVars, metrics>>
  /\ UNCHANGED <<normVars, segVars, mineVars, aggVars, uiVars>>

\* parseExcelFile(file) of the other copy of parseExcel.ts
parseExcelFile0(file) ==
  /\ rawData = <<>>
  /\ promise.state = "none"
  /\ promise' = Pending("parseExcelFile0", file)
  /\ UNCHANGED <<storeVars, metrics>>
  /\ UNCHANGED <<normVars, segVars, mineVars, aggVars, uiVars>>

ReadError(parser) ==
  IF parser = "parseCSVFile" THEN "Erro ao ler arquivo CSV" ELSE "Erro ao ler arquivo"

Rejected(p, reason) == [p EXCEPT !.state = "rejected", !.reason = reason]

Resolved(p, result) ==
  IF result.threw THEN Rejected(p, "TypeError")
  ELSE [p EXCEPT !.state = "resolved",
                 !.data = result.normalized,
                 !.quality = <<result.quality>>]

\* reader.onload of parseExcelFile; hasResult is FALSE when e.target.result
\* is empty
parseExcelFileOnload(hasResult) ==
  /\ promise.state = "pending"
  /\ promise.parser = "parseExcelFile"
  /\ ~hasResult => promise.file = <<>>
  /\ promise' =
       IF ~hasResult THEN Rejected(promise, "Erro ao ler arquivo")
       ELSE Resolved(promise, normalizeData(ExcelRows(promise.file)))
  /\ UNCHANGED <<storeVars, metrics>>
  /\ UNCHANGED <<normVars, segVars, mineVars, aggVars, uiVars>>

\* reader.onload of parseCSVFile
parseCSVFileOnload(hasResult) ==
  /\ promise.state = "pending"
  /\ promise.parser = "parseCSVFile"
  /\ ~hasResult => promise.file = <<>>
  /\ promise' =
       IF ~hasResult THEN Rejected(promise, "Erro ao ler arquivo CSV")
       ELSE IF Len(promise.file) = 0
            THEN Rejected(promise, "Arquivo CSV vazio ou formato invalido")
       ELSE Resolved(promise, normalizeData(CsvRows(promise.file)))
  /\ UNCHANGED <<storeVars, metrics>>
  /\ UNCHANGED <<normVars, segVars, mineVars, aggVars, uiVars>>

\* reader.onload of the other copy's parseExcelFile
parseExcelFile0Onload(hasResult) ==
  /\ promise.state = "pending"
  /\ promise.parser = "parseExcelFile0"
  /\ ~hasResult => promise.file = <<>>
  /\ promise' =
       IF ~hasResult THEN Rejected(promise, "Erro ao ler arquivo")
       ELSE Resolved(promise, normalizeData0(ExcelRows(promise.file)))
  /\ UNCHANGED <<storeVars, metrics>>
  /\ UNCHANGED <<normVars, segVars, mineVars, aggVars, uiVars>>

readerOnerror ==
  /\ promise.state = "pending"
  /\ promise' = Rejected(promise, ReadError(promise.parser))
  /\ UNCHANGED <<storeVars, metrics>>
  /\ UNCHANGED <<normVars, segVars, mineVars, aggVars, uiVars>>

\* FileUpload.handleFile after its await: setData, or setError in the catch
handleFileResume ==
  /\ promise.parser = "parseExcelFile"
  /\ promise.state \in {"resolved", "rejected"}
  /\ IF promise.state = "resolved"
     THEN /\ rawData' = promise.data
          /\ dataQuality' = promise.quality
          /\ isLoading' = FALSE
          /\ error' = "null"
     ELSE /\ error' = promise.reason
          /\ isLoading' = FALSE
          /\ UNCHANGED <<rawData, dataQuality>>
  /\ promise' = NoPromise
  /\ metrics' = <<>>
  /\ UNCHANGED filters
  /\ UNCHANGED <<normVars, segVars, mineVars, aggVars, uiVars>>

\* the caller of parseCSVFile takes the settled promise
awaitParse ==
  /\ promise.parser \in {"parseCSVFile", "parseExcelFile0"}
  /\ promise.state \in {"resolved", "rejected"}
  /\ promise' = NoPromise
  /\ UNCHANGED <<storeVars, metrics>>
  /\ UNCHANGED <<normVars, segVars, mineVars, aggVars, uiVars>>

clearData ==
  /\ rawData' = <<>>
  /\ dataQuality' = <<>>
  /\ error' = "null"
  /\ filters' = defaultFilters
  /\ metrics' = <<>>
  /\ UNCHANGED <<isLoading, promise>>
  /\ UNCHANGED <<normVars, segVars, mineVars, aggVars, uiVars>>

\* setFilters({[key]: value}), called by the FiltersBar shown with the data
setFilters(key, value) ==
  /\ rawData # <<>>
  /\ filters' = [filters EXCEPT ![key] = value]
  /\ metrics' = <<>>
  /\ UNCHANGED <<rawData, dataQuality, isLoading, error, promise>>
  /\ UNCHANGED <<normVars, segVars, mineVars, aggVars, uiVars>>

filteredData == applyFilters(rawData, filters)

\* OverviewView: useMemo(() => calculateOverviewMetrics(data, filters.incluirBrindesDoacao))
OverviewView ==
  /\ rawData # <<>>
  /\ metrics = <<>>
  /\ metrics' = <<calculateOverviewMetrics(filteredData, filters.incluirBrindesDoacao)>>
  /\ UNCHANGED <<storeVars, promise>>
  /\ UNCHANGED <<normVars, segVars, mineVars, aggVars, uiVars>>

Next ==
  \/ \E name \in FileNames, file \in Files : handleFile(name, file)
  \/ \E file \in Files : parseCSVFile(file)
  \/ \E file \in Files : parseExcelFile0(file)
  \/ \E hasResult \in BOOLEAN : parseExcelFileOnload(hasResult)
  \/ \E hasResult \in BOOLEAN : parseCSVFileOnload(hasResult)
  \/ \E hasResult \in BOOLEAN : parseExcelFile0Onload(hasResult)
  \/ readerOnerror
  \/ handleFileResume
  \/ awaitParse
  \/ clearData
  \/ \E incluir \in BOOLEAN : setFilters("incluirBrindesDoacao", incluir)
  \/ \E search \in SearchTexts : setFilters("searchRevendedora", search)
  \/ OverviewView

Spec == Init /\ [][Next]_vars

(***************************************************************************)
(* FileUpload.handleFile called again while earlier calls are in flight.   *)
(* Each call keeps its own promise; `before` is the store's data when the  *)
(* call started, `overlap` tells that an earlier call was still in flight  *)
(* then, `applied` that the call has run to its end.                       *)
(***************************************************************************)
MaxUploads == 2

\* an empty sheet and two sheets of one row
UploadFiles ==
  {<<>>, <<BaseRow>>, <<[BaseRow EXCEPT !.NomeRevendedora = <<"B", "i", "a">>]>>}

UploadInit ==
  /\ StoreInit
  /\ promise = NoPromise
  /\ metrics = <<>>
  /\ NormIdle
  /\ SegIdle
  /\ MineIdle
  /\ AggIdle
  /\ UiIdle

\* FileUpload.handleFile up to its await; FileUpload is rendered while the
\* store holds no rows
handleFileStart(name, file) ==
  /\ rawData = <<>>
  /\ Len(uploads) < MaxUploads
  /\ IF name \notin {"xlsx", "xls"}
     THEN /\ error' = "Por favor, selecione um arquivo Excel (.xlsx ou .xls)"
          /\ isLoading' = FALSE
          /\ lastStore' = [op |-> "setError", id |-> 0]
          /\ UNCHANGED uploads
     ELSE \* setLoading(true); setError(null)
          /\ error' = "null"
          /\ isLoading' = FALSE
          /\ uploads' = Append(uploads,
               [promise |-> Pending("parseExcelFile", file),
                before |-> [rawData |-> rawData, dataQuality |-> dataQuality],
                overlap |-> \E i \in 1..Len(uploads) : ~uploads[i].applied,
                applied |-> FALSE])
          /\ lastStore' = [op |-> "start", id |-> Len(uploads) + 1]
  /\ UNCHANGED <<rawData, dataQuality, filters, promise, metrics, timers, quiet>>
  /\ UNCHANGED <<normVars, segVars, mineVars, aggVars>>

\* reader.onload of the i-th call's parseExcelFile
uploadOnload(i, hasResult) ==
  /\ i \in 1..Len(uploads)
  /\ uploads[i].promise.state = "pending"
  /\ ~hasResult => uploads[i].promise.file = <<>>
  /\ uploads' = [uploads EXCEPT ![i].promise =
       IF ~hasResult THEN Rejected(@, "Erro ao ler arquivo")
       ELSE Resolved(@, normalizeData(ExcelRows(@.file)))]
  /\ UNCHANGED <<storeVars, promise, metrics, lastStore, timers, quiet>>
  /\ UNCHANGED <<normVars, segVars, mineVars, aggVars>>

\* reader.onerror of the i-th call's parseExcelFile
uploadOnerror(i) ==
  /\ i \in 1..Len(uploads)
  /\ uploads[i].promise.state = "pending"
  /\ uploads' = [uploads EXCEPT ![i].promise = Rejected(@, ReadError(@.parser))]
  /\ UNCHANGED <<storeVars, promise, metrics, lastStore, timers, quiet>>
  /\ UNCHANGED <<normVars, segVars, mineVars, aggVars>>

\* the i-th call after its await: setData, or setError in the catch
uploadResume(i) ==
  /\ i \in 1..Len(uploads)
  /\ ~uploads[i].applied
  /\ uploads[i].promise.state \in {"resolved", "rejected"}
  /\ IF uploads[i].promise.state = "resolved"
     THEN /\ rawData' = uploads[i].promise.data
          /\ dataQuality' = uploads[i].promise.quality
          /\ isLoading' = FALSE
          /\ error' = "null"
          /\ lastStore' = [op |-> "setData", id |-> i]
     ELSE /\ error' = uploads[i].promise.reason
          /\ isLoading' = FALSE
          /\ lastStore' = [op |-> "setError", id |-> i]
          /\ UNCHANGED <<rawData, dataQuality>>
  /\ uploads' = [uploads EXCEPT ![i].applied = TRUE]
  /\ UNCHANGED <<filters, promise, metrics, timers, quiet>>
  /\ UNCHANGED <<normVars, segVars, mineVars, aggVars>>

\* the button of DataView, rendered while the store holds rows
clearDataClick ==
  /\ rawData # <<>>
  /\ rawData' = <<>>
  /\ dataQuality' = <<>>
  /\ error' = "null"
  /\ filters' = defaultFilters
  /\ lastStore' = [op |-> "clearData", id |-> 0]
  /\ UNCHANGED <<isLoading, promise, metrics, uploads, timers, quiet>>
  /\ UNCHANGED <<normVars, segVars, mineVars, aggVars>>

UploadNext ==
  \/ \E name \in FileNames, file \in UploadFiles : handleFileStart(name, file)
  \/ \E i \in 1..MaxUploads, hasResult \in BOOLEAN : uploadOnload(i, hasResult)
  \/ \E i \in 1..MaxUploads : uploadOnerror(i)
  \/ \E i \in 1..MaxUploads : uploadResume(i)
  \/ clearDataClick

SpecUpload == UploadInit /\ [][UploadNext]_vars

(***************************************************************************)
(* segmentClients applied to bounded client sets.                          *)
(***************************************************************************)
MaxClients == 3

\* entries of clienteMap: one row per transaction, delivered all by pickup
\* or all by freight
ClientEntries ==
  {[receita |-> receita, transacoes |-> tc[1], ciclos |-> tc[2], itens |-> itens,
    skus |-> 1, FRETE |-> tc[1] - retirada * tc[1], RETIRADA |-> retirada * tc[1],
    UNKNOWN |-> 0] :
     receita \in {100, 1000}, tc \in {<<1, 1>>, <<3, 1>>, <<3, 2>>},
     itens \in {1, 3}, retirada \in {0, 1}}

\* the i-th client of the map, named by its position
NamedClient(entry, i) ==
  ClientMetricsOf(
    [NomeRevendedora |-> <<"C", NatToStr(i)>>,
     receita |-> entry.receita, transacoes |-> entry.transacoes,
     ciclos |-> entry.ciclos, itens |-> entry.itens, skus |-> entry.skus,
     FRETE |-> entry.FRETE, RETIRADA |-> entry.RETIRADA, UNKNOWN |-> entry.UNKNOWN,
     GerenciaCode |-> <<"1", "3", "7", "0", "6">>, Setor |-> <<"S", "1">>,
     canais |-> <<[canal |-> <<"A", "p", "p">>,
                   count |-> entry.FRETE + entry.RETIRADA + entry.UNKNOWN]>>,
     pontos |-> 0])

\* ten clients of revenue 100, 200, ..., 1000; the last has tTop
\* transactions, the others tRest
RevenueLadder(tTop, tRest) ==
  [i \in 1..10 |->
     NamedClient([receita |-> 100 * i,
                  transacoes |-> IF i = 10 THEN tTop ELSE tRest,
                  ciclos |-> 1, itens |-> 1, skus |-> 1,
                  FRETE |-> IF i = 10 THEN tTop ELSE tRest, RETIRADA |-> 0, UNKNOWN |-> 0],
                 i)]

SegInputs ==
  {[i \in 1..Len(entries) |-> NamedClient(entries[i], i)] :
     entries \in SeqsUpTo(ClientEntries, MaxClients)}
  \cup {RevenueLadder(tTop, tRest) : tTop \in {1, 3}, tRest \in {1, 3}}

SegInit ==
  /\ clientesIn \in SegInputs
  /\ segmentsOut = <<>>
  /\ NormIdle
  /\ AppIdle
  /\ MineIdle
  /\ AggIdle
  /\ UiIdle

ApplySegmentClients ==
  /\ segmentsOut = <<>>
  /\ segmentsOut' = <<segmentClients(clientesIn)>>
  /\ UNCHANGED clientesIn
  /\ UNCHANGED <<normVars, appVars, mineVars, aggVars, uiVars>>

SegNext == ApplySegmentClients

SpecSeg == SegInit /\ [][SegNext]_vars

(***************************************************************************)
(* generateBaskets and calculateFrequentPairs applied to the rows ingestion *)
(* produces from bounded files, as BasketView does.                        *)
(***************************************************************************)
MaxBasketRows == 4

\* three customers buying two products, a third product bought once and
\* given once as a gift, and a row without a product code
BasketTextRows ==
  {[BaseRow EXCEPT !.NomeRevendedora = nome, !.CodigoProduto = codigo] :
     nome \in {<<"A", "n", "a">>, <<"B", "i", "a">>, <<"C", "i", "d">>},
     codigo \in {<<"1", "2", "3", "4">>, <<"1", "2", "3", "5">>}}
  \cup {[BaseRow EXCEPT !.CodigoProduto = <<"9", "9">>],
        [BaseRow EXCEPT !.CodigoProduto = <<"a", "b">>],
        [BaseRow EXCEPT !.NomeRevendedora = <<"B", "i", "a">>,
                        !.CodigoProduto = <<"9", "9">>,
                        !.Tipo = <<"b", "r", "i", "n", "d", "e">>]}

BasketFiles == SeqsUpTo(BasketTextRows, MaxBasketRows)

\* the threshold of BasketView, and two that cut pairs off
MinSupports == {JsDiv(1, 1000), JsDiv(1, 2), JsDiv(1, 1)}

BasketInit ==
  /\ \E file \in BasketFiles : recordsIn = normalizeData(ExcelRows(file)).normalized
  /\ incluirIn \in BOOLEAN
  /\ minSupportIn \in MinSupports
  /\ basketsOut = <<>>
  /\ pairsOut = <<>>
  /\ predictionsOut = <<>>
  /\ NormIdle
  /\ AppIdle
  /\ SegIdle
  /\ AggIdle
  /\ UiIdle

ApplyGenerateBaskets ==
  /\ basketsOut = <<>>
  /\ basketsOut' = <<generateBaskets(recordsIn, incluirIn)>>
  /\ UNCHANGED <<recordsIn, incluirIn, minSupportIn, pairsOut, predictionsOut>>
  /\ UNCHANGED <<normVars, appVars, segVars, aggVars, uiVars>>

ApplyCalculateFrequentPairs ==
  /\ basketsOut # <<>>
  /\ pairsOut = <<>>
  /\ pairsOut' = <<calculateFrequentPairs(basketsOut[1], recordsIn, minSupportIn)>>
  /\ UNCHANGED <<recordsIn, incluirIn, minSupportIn, basketsOut, predictionsOut>>
  /\ UNCHANGED <<normVars, appVars, segVars, aggVars, uiVars>>

BasketNext ==
  \/ ApplyGenerateBaskets
  \/ ApplyCalculateFrequentPairs

SpecBasket == BasketInit /\ [][BasketNext]_vars

(***************************************************************************)
(* generatePredictions applied to the rows ingestion produces from bounded *)
(* files, as PredictionsView does.                                         *)
(***************************************************************************)
MaxPredRows == 4

\* the threshold PredictionsView passes
MinCiclos == 3

\* four consecutive cycles, the first one written in two ways
PredCiclos ==
  << <<"0", "1", "/", "2", "0", "2", "6">>,
     <<"1", "/", "2", "0", "2", "6">>,
     <<"0", "2", "/", "2", "0", "2", "6">>,
     <<"0", "3", "/", "2", "0", "2", "6">>,
     <<"0", "4", "/", "2", "0", "2", "6">> >>

PredQuantities == << <<"1", "0">>, <<"2", "0">>, <<"3", "0">>, <<"4", "0">> >>

\* rows of other kinds: without a product code, a gift, without a valid
\* cycle, and of a second product
PredOtherRows ==
  << [BaseRow EXCEPT !.CodigoProduto = <<"a", "b">>,
                     !.CicloCaptacao = PredCiclos[4], !.QuantidadeItens = PredQuantities[3]],
     [BaseRow EXCEPT !.Tipo = <<"b", "r", "i", "n", "d", "e">>,
                     !.CicloCaptacao = PredCiclos[4], !.QuantidadeItens = PredQuantities[3]],
     [BaseRow EXCEPT !.CicloCaptacao = <<"1", "3", "/", "2", "0", "2", "6">>,
                     !.QuantidadeItens = PredQuantities[3]],
     [BaseRow EXCEPT !.CodigoProduto = <<"1", "2", "3", "5">>,
                     !.CicloCaptacao = PredCiclos[4], !.QuantidadeItens = PredQuantities[3]] >>

PredRowCount == Len(PredCiclos) * Len(PredQuantities) + Len(PredOtherRows)

\* the i-th row: the sales of one product by cycle and quantity, then the
\* rows of other kinds
PredRowAt(i) ==
  IF i <= Len(PredCiclos) * Len(PredQuantities)
  THEN [BaseRow EXCEPT
          !.CicloCaptacao = PredCiclos[((i - 1) \div Len(PredQuantities)) + 1],
          !.QuantidadeItens = PredQuantities[((i - 1) % Len(PredQuantities)) + 1]]
  ELSE PredOtherRows[i - Len(PredCiclos) * Len(PredQuantities)]

\* the file holding the rows of the given numbers
PredFile(s) == [j \in 1..Len(s) |-> PredRowAt(s[j])]

\* the files of up to MaxPredRows rows, the rows in the order above
PredInit ==
  /\ \E s \in SeqsUpTo(1..PredRowCount, MaxPredRows) :
       /\ \A j \in 1..(Len(s) - 1) : s[j] <= s[j + 1]
       /\ \E file \in {PredFile(s)} :
            recordsIn = normalizeData(ExcelRows(file)).normalized
  /\ incluirIn \in BOOLEAN
  /\ minSupportIn = JsDiv(1, 1000)
  /\ basketsOut = <<>>
  /\ pairsOut = <<>>
  /\ predictionsOut = <<>>
  /\ NormIdle
  /\ AppIdle
  /\ SegIdle
  /\ AggIdle
  /\ UiIdle

ApplyGeneratePredictions ==
  /\ predictionsOut = <<>>
  /\ predictionsOut' = <<generatePredictions(recordsIn, incluirIn, MinCiclos)>>
  /\ UNCHANGED <<recordsIn, incluirIn, minSupportIn, basketsOut, pairsOut>>
  /\ UNCHANGED <<normVars, appVars, segVars, aggVars, uiVars>>

PredNext == ApplyGeneratePredictions

SpecPred == PredInit /\ [][PredNext]_vars

(***************************************************************************)
(* applyFilters applied to the rows ingestion produces from bounded files  *)
(* and to bounded filter choices, as App does.                             *)
(***************************************************************************)
MaxFilterRows == 2

\* two named customers in two cycles and sectors, and the rows without a
\* customer name
FilterTextRows ==
  {BaseRow,
   [BaseRow EXCEPT !.NomeRevendedora = <<"B", "i", "a">>,
                   !.Setor = <<"1", "2">>,
                   !.CicloCaptacao = <<"0", "2", "/", "2", "0", "2", "6">>,
                   !.TipoEntrega = <<"e", "n", "d", "e", "r", "e", "c", "o">>]}
  \cup NamelessRows

FilterFiles == SeqsUpTo(FilterTextRows, MaxFilterRows)

\* the choices of the filter bar: each list empty or holding one option,
\* each search box empty or holding a typed text
FilterChoices ==
  {[defaultFilters EXCEPT !.gerenciaCodes = g, !.setores = s, !.ciclos = c,
                          !.entregaCategorias = e,
                          !.searchRevendedora = sr, !.searchProduto = sp] :
     g \in {<<>>, <<<<"9", "9", "9", "9", "9">>>>},
     s \in {<<>>, <<<<"S", "1">>>>},
     c \in {<<>>, <<<<"0", "2", "/", "2", "0", "2", "6">>>>},
     e \in {<<>>, <<"FRETE">>},
     sr \in {<<>>, <<"a", "n">>, <<"a", "b">>, <<"z">>},
     sp \in {<<>>, <<"b", "a", "t">>, <<"1", "2", "3", "4">>}}

FilterInit ==
  /\ \E file \in FilterFiles : recordsIn = normalizeData(ExcelRows(file)).normalized
  /\ filtersIn \in FilterChoices
  /\ filteredOut = <<>>
  /\ overviewOut = <<>>
  /\ rankingOut = <<>>
  /\ clientMetricsOut = <<>>
  /\ ciclosOut = <<>>
  /\ incluirIn = FALSE
  /\ minSupportIn = JsDiv(1, 1000)
  /\ basketsOut = <<>>
  /\ pairsOut = <<>>
  /\ predictionsOut = <<>>
  /\ NormIdle
  /\ AppIdle
  /\ SegIdle
  /\ UiIdle

ApplyApplyFilters ==
  /\ filteredOut = <<>>
  /\ filteredOut' = <<applyFilters(recordsIn, filtersIn)>>
  /\ UNCHANGED <<filtersIn, overviewOut, rankingOut, clientMetricsOut, ciclosOut>>
  /\ UNCHANGED <<normVars, appVars, segVars, mineVars, uiVars>>

FilterNext == ApplyApplyFilters

SpecFilter == FilterInit /\ [][FilterNext]_vars

(***************************************************************************)
(* The aggregations applied to the rows ingestion produces from bounded    *)
(* files, as OverviewView, ProductsView and ClientsView do.                *)
(***************************************************************************)
MaxAggRows == 3

\* a sale of 3 items at 10 by Ana in cycle 01/2026 with 10 points
AggBaseRow == [BaseRow EXCEPT !.ValorPraticado = <<"1", "0">>]

\* the same customer in a second cycle with more points, on a second day,
\* without a valid SKU, without a cycle, buying a second product by
\* freight; a second customer buying and receiving a gift; a third
\* customer who only receives a gift
AggTextRows ==
  {AggBaseRow,
   [AggBaseRow EXCEPT !.CicloCaptacao = <<"0", "2", "/", "2", "0", "2", "6">>,
                      !.QuantidadePontos = <<"2", "0">>],
   [AggBaseRow EXCEPT !.DataCaptacao = <<"2", "0", "2", "6", "-", "0", "1", "-", "1", "5">>],
   [AggBaseRow EXCEPT !.CodigoProduto = <<"a", "b">>],
   [AggBaseRow EXCEPT !.CicloCaptacao = <<>>],
   [AggBaseRow EXCEPT !.CodigoProduto = <<"1", "2", "3", "5">>,
                      !.QuantidadeItens = <<"1">>,
                      !.ValorPraticado = <<"5", "0">>,
                      !.MeioCaptacao = <<>>,
                      !.TipoEntrega = <<"e", "n", "d", "e", "r", "e", "c", "o">>],
   [AggBaseRow EXCEPT !.NomeRevendedora = <<"B", "i", "a">>,
                      !.QuantidadeItens = <<"2">>],
   [AggBaseRow EXCEPT !.NomeRevendedora = <<"B", "i", "a">>,
                      !.CodigoProduto = <<"9", "9">>,
                      !.Tipo = <<"b", "r", "i", "n", "d", "e">>],
   [AggBaseRow EXCEPT !.NomeRevendedora = <<"C", "i", "d">>,
                      !.CicloCaptacao = <<"0", "2", "/", "2", "0", "2", "6">>,
                      !.Tipo = <<"b", "r", "i", "n", "d", "e">>]}

AggFiles == SeqsUpTo(AggTextRows, MaxAggRows)

AggInit ==
  /\ \E file \in AggFiles : recordsIn = normalizeData(ExcelRows(file)).normalized
  /\ incluirIn \in BOOLEAN
  /\ filtersIn = defaultFilters
  /\ filteredOut = <<>>
  /\ overviewOut = <<>>
  /\ rankingOut = <<>>
  /\ clientMetricsOut = <<>>
  /\ ciclosOut = <<>>
  /\ minSupportIn = JsDiv(1, 1000)
  /\ basketsOut = <<>>
  /\ pairsOut = <<>>
  /\ predictionsOut = <<>>
  /\ NormIdle
  /\ AppIdle
  /\ SegIdle
  /\ UiIdle

ApplyCalculateOverviewMetrics ==
  /\ overviewOut = <<>>
  /\ overviewOut' = <<calculateOverviewMetrics(recordsIn, incluirIn)>>
  /\ UNCHANGED <<filtersIn, filteredOut, rankingOut, clientMetricsOut, ciclosOut>>
  /\ UNCHANGED <<normVars, appVars, segVars, mineVars, uiVars>>

ApplyCalculateProductRanking ==
  /\ overviewOut # <<>>
  /\ rankingOut = <<>>
  /\ rankingOut' = <<calculateProductRanking(recordsIn, incluirIn)>>
  /\ UNCHANGED <<filtersIn, filteredOut, overviewOut, clientMetricsOut, ciclosOut>>
  /\ UNCHANGED <<normVars, appVars, segVars, mineVars, uiVars>>

ApplyGroupByCiclo ==
  /\ rankingOut # <<>>
  /\ ciclosOut = <<>>
  /\ ciclosOut' = <<groupByCiclo(recordsIn, incluirIn)>>
  /\ UNCHANGED <<filtersIn, filteredOut, overviewOut, rankingOut, clientMetricsOut>>
  /\ UNCHANGED <<normVars, appVars, segVars, mineVars, uiVars>>

ApplyCalculateClientMetrics ==
  /\ ciclosOut # <<>>
  /\ clientMetricsOut = <<>>
  /\ clientMetricsOut' = <<calculateClientMetrics(recordsIn, incluirIn)>>
  /\ UNCHANGED <<filtersIn, filteredOut, overviewOut, rankingOut, ciclosOut>>
  /\ UNCHANGED <<normVars, appVars, segVars, mineVars, uiVars>>

AggNext ==
  \/ ApplyCalculateOverviewMetrics
  \/ ApplyCalculateProductRanking
  \/ ApplyGroupByCiclo
  \/ ApplyCalculateClientMetrics

SpecAgg == AggInit /\ [][AggNext]_vars

(***************************************************************************)
(* FiltersBar over loaded data: the two debounced search boxes, the gift   *)
(* checkbox, the cycle list and the reset button.  A timer holds the text  *)
(* of the last call of the debounced function, which is the text of its    *)
(* box, and whether its timeout is pending.                                *)
(***************************************************************************)
SearchKeys == {"searchRevendedora", "searchProduto"}

\* the options of the cycle list
CicloChoices == {<<>>, <<<<"0", "1", "/", "2", "0", "2", "6">>>>}

\* the store after one upload of a one-row file
DebounceInit ==
  /\ \E result \in {normalizeData(ExcelRows(<<BaseRow>>))} :
       /\ rawData = result.normalized
       /\ dataQuality = <<result.quality>>
  /\ isLoading = FALSE
  /\ error = "null"
  /\ filters = defaultFilters
  /\ promise = NoPromise
  /\ metrics = <<>>
  /\ NormIdle
  /\ SegIdle
  /\ MineIdle
  /\ AggIdle
  /\ UiIdle

\* activeFiltersCount of FiltersBar
activeFiltersCount ==
  (IF Len(filters.gerenciaCodes) > 0 THEN 1 ELSE 0)
  + (IF Len(filters.setores) > 0 THEN 1 ELSE 0)
  + (IF Len(filters.ciclos) > 0 THEN 1 ELSE 0)
  + (IF Len(filters.meiosCaptacao) > 0 THEN 1 ELSE 0)
  + (IF Len(filters.entregaCategorias) > 0 THEN 1 ELSE 0)
  + (IF filters.searchRevendedora # <<>> THEN 1 ELSE 0)
  + (IF filters.searchProduto # <<>> THEN 1 ELSE 0)

\* onChange of a search box: the box takes the text and the debounced
\* function is called, which clears a pending timeout and sets a new one
searchOnChange(key, text) ==
  /\ rawData # <<>>
  /\ text # timers[key].value
  /\ timers' = [timers EXCEPT ![key] = [armed |-> TRUE, value |-> text]]
  /\ quiet' = FALSE
  /\ UNCHANGED <<uploads, lastStore>>
  /\ UNCHANGED <<storeVars, promise, metrics, normVars, segVars, mineVars, aggVars>>

\* later() of debounce, 300 ms after the last call: setFilters({[key]: value})
later(key) ==
  /\ timers[key].armed
  /\ timers' = [timers EXCEPT ![key].armed = FALSE]
  /\ filters' = [filters EXCEPT ![key] = timers[key].value]
  /\ UNCHANGED <<rawData, dataQuality, isLoading, error, promise, metrics>>
  /\ UNCHANGED <<uploads, lastStore, quiet>>
  /\ UNCHANGED <<normVars, segVars, mineVars, aggVars>>

\* onChange of the checkbox "Incluir Brinde/Doacao"
incluirOnChange ==
  /\ rawData # <<>>
  /\ filters' = [filters EXCEPT !.incluirBrindesDoacao = ~filters.incluirBrindesDoacao]
  /\ quiet' = FALSE
  /\ UNCHANGED <<rawData, dataQuality, isLoading, error, promise, metrics>>
  /\ UNCHANGED <<uploads, lastStore, timers>>
  /\ UNCHANGED <<normVars, segVars, mineVars, aggVars>>

\* onChange of the cycle list
ciclosOnChange(selected) ==
  /\ rawData # <<>>
  /\ selected # filters.ciclos
  /\ filters' = [filters EXCEPT !.ciclos = selected]
  /\ quiet' = FALSE
  /\ UNCHANGED <<rawData, dataQuality, isLoading, error, promise, metrics>>
  /\ UNCHANGED <<uploads, lastStore, timers>>
  /\ UNCHANGED <<normVars, segVars, mineVars, aggVars>>

\* the button "Limpar", shown while a filter is active: resetFilters of
\* the store; the boxes and the timeouts are left as they are
resetFilters ==
  /\ rawData # <<>>
  /\ activeFiltersCount > 0
  /\ filters' = defaultFilters
  /\ quiet' = TRUE
  /\ UNCHANGED <<rawData, dataQuality, isLoading, error, promise, metrics>>
  /\ UNCHANGED <<uploads, lastStore, timers>>
  /\ UNCHANGED <<normVars, segVars, mineVars, aggVars>>

DebounceNext ==
  \/ \E key \in SearchKeys, text \in SearchTexts : searchOnChange(key, text)
  \/ \E key \in SearchKeys : later(key)
  \/ incluirOnChange
  \/ \E selected \in CicloChoices : ciclosOnChange(selected)
  \/ resetFilters

SpecDebounce == DebounceInit /\ [][DebounceNext]_vars

(***************************************************************************)
(* Claims about normalize.ts, checked under SpecNorm.                      *)
(***************************************************************************)

\* C2: normalizeSKU returns INVALID or a string of exactly 5 decimal digits,
\* whatever the input.
C2_SkuFiveDigitsOrInvalid ==
  nFn = "normalizeSKU" =>
    \/ skuOut = INVALID
    \/ Len(skuOut) = 5 /\ AllDigits(skuOut)

\* C3: an integer of 1 to 5 digits, given as a number or as a digit string,
\* is normalized to itself left-padded with zeros to length 5; an absent
\* value, the empty string and a string without digits give INVALID.
C3_SkuZeroPadded ==
  nFn = "normalizeSKU" =>
    /\ (nArg.k = "num" /\ nArg.n >= 0 /\ nArg.n <= 99999) =>
         /\ Len(skuOut) = 5
         /\ AllDigits(skuOut)
         /\ StrToNat(skuOut) = nArg.n
    /\ (nArg.k = "str" /\ Len(nArg.s) \in 1..5 /\ AllDigits(nArg.s)) =>
         /\ Len(skuOut) = 5
         /\ SubSeq(skuOut, 6 - Len(nArg.s), 5) = nArg.s
         /\ \A i \in 1..(5 - Len(nArg.s)) : skuOut[i] = "0"
    /\ (nArg.k = "absent" \/ (nArg.k = "str" /\ \A i \in 1..Len(nArg.s) : ~IsDigit(nArg.s[i]))) =>
         skuOut = INVALID

C3_Witness ==
  /\ nFn = "normalizeSKU"
  /\ nArg = Num(1234)
  /\ skuOut = <<"0", "1", "2", "3", "4">>

\* the shape (1-2 digits)[/-](4 digits) at index i with a month of l digits
C4_ShapeAt(s, i, l) ==
  /\ i >= 1
  /\ i + l + 4 <= Len(s)
  /\ \A j \in 0..(l - 1) : s[i + j] \in Digits
  /\ s[i + l] = "/" \/ s[i + l] = "-"
  /\ \A j \in 1..4 : s[i + l + j] \in Digits

C4_Shapes(s) == {p \in (1..Len(s)) \X {1, 2} : C4_ShapeAt(s, p[1], p[2])}

\* the match a regular-expression engine reports: leftmost, longest month
C4_First(s) ==
  CHOOSE p \in C4_Shapes(s) :
    \A q \in C4_Shapes(s) : p[1] < q[1] \/ (p[1] = q[1] /\ p[2] >= q[2])

C4_Month(s) == LET p == C4_First(s) IN StrToNat(SubSeq(s, p[1], p[1] + p[2] - 1))
C4_Year(s) == LET p == C4_First(s) IN StrToNat(SubSeq(s, p[1] + p[2] + 1, p[1] + p[2] + 4))

\* t is s without its leading and trailing blanks
C4_IsTrimOf(t, s) ==
  \E a \in 0..Len(s), b \in 0..Len(s) :
    /\ a + b <= Len(s)
    /\ t = SubSeq(s, a + 1, Len(s) - b)
    /\ \A i \in 1..a : s[i] = " "
    /\ \A i \in (Len(s) - b + 1)..Len(s) : s[i] = " "
    /\ t # <<>> => (t[1] # " " /\ t[Len(t)] # " ")

\* C4: parseCiclo gives UNKNOWN/-1 exactly when the input is absent, has no
\* (1-2 digits)[/-](4 digits) match, or the matched month is outside 1..12
\* or the year outside 2000..2100; otherwise index = year*12+month and the
\* label is the trimmed input.  Hence index >= 0 iff label # UNKNOWN.
C4_ParseCiclo ==
  (nFn = "parseCiclo" /\ nArg.k \in {"absent", "str"}) =>
    LET s == nArg.s
        rejected ==
          \/ nArg.k = "absent"
          \/ C4_Shapes(s) = {}
          \/ C4_Month(s) < 1 \/ C4_Month(s) > 12
          \/ C4_Year(s) < 2000 \/ C4_Year(s) > 2100
    IN /\ ~cicloOut.threw
       /\ rejected => (cicloOut.label = UNKNOWN /\ cicloOut.index = -1)
       /\ ~rejected =>
            /\ cicloOut.index = C4_Year(s) * 12 + C4_Month(s)
            /\ C4_IsTrimOf(cicloOut.label, s)
            /\ cicloOut.label # UNKNOWN
       /\ cicloOut.index >= 0 <=> cicloOut.label # UNKNOWN

C4_Witness ==
  /\ nFn = "parseCiclo"
  /\ nArg = Str(<<" ", "1", "2", "-", "2", "1", "0", "0", " ">>)
  /\ cicloOut.index = 2100 * 12 + 12
  /\ cicloOut.label = <<"1", "2", "-", "2", "1", "0", "0">>

C4_WitnessRejected ==
  /\ nFn = "parseCiclo"
  /\ nArg = Str(<<"1", "3", "/", "2", "0", "2", "6">>)
  /\ cicloOut.index = -1

\* the start indexes of the runs of 5 consecutive digits of s
C5_Runs(s) == {i \in 1..(Len(s) - 4) : \A j \in 0..4 : s[i + j] \in Digits}

\* C5: extractGerenciaCode returns the first run of 5 consecutive digits of
\* the text of its input, and UNKNOWN when the input is absent, empty or has
\* no such run.
C5_FirstFiveDigits ==
  nFn = "extractGerenciaCode" =>
    IF nArg.k = "absent" \/ C5_Runs(String(nArg)) = {}
    THEN gerOut = UNKNOWN
    ELSE \E i \in C5_Runs(String(nArg)) :
           /\ \A j \in C5_Runs(String(nArg)) : i <= j
           /\ gerOut = SubSeq(String(nArg), i, i + 4)

C5_Witness ==
  /\ nFn = "extractGerenciaCode"
  /\ nArg = Str(<<"1", "3", "7", "0", "6", " ", "-", " ", "N", "O", "M", "E">>)
  /\ gerOut = <<"1", "3", "7", "0", "6">>

(***************************************************************************)
(* Claims about ingestion and the overview, checked under Spec.            *)
(***************************************************************************)
\* the records a parse has produced: those of the settled promise and those
\* in the store
Produced ==
  (IF promise.state = "resolved" THEN Distinct(promise.data) ELSE {})
  \cup Distinct(rawData)

\* C1: in every row produced by ingestion, ValorLinhaVenda is ValorPraticado
\* when Tipo is Venda and 0 otherwise; it is never multiplied by
\* QuantidadeItens.
C1_SaleLineValue ==
  \A row \in Produced :
    row.ValorLinhaVenda = (IF row.Tipo = "Venda" THEN row.ValorPraticado ELSE 0)

RowsWereRead ==
  \/ promise.state = "resolved"
  \/ promise.state = "rejected" /\ promise.reason = "TypeError"

\* C7: ingestion never drops a row: whatever the rows, the records have the
\* length and order of the input, rowIndex is the row's position, hasErrors
\* holds iff errors is non-empty, totalLinhas = linhasValidas + linhasComErro
\* and linhasComErro counts the records with hasErrors.
C7_NoRowDropped ==
  RowsWereRead =>
    /\ promise.state = "resolved"
    /\ Len(promise.data) = Len(promise.file)
    /\ \A i \in 1..Len(promise.data) :
         /\ promise.data[i].rowIndex = i - 1
         /\ promise.data[i].hasErrors <=> (promise.data[i].errors # <<>>)
    /\ LET q == promise.quality[1]
       IN /\ q.totalLinhas = q.linhasValidas + q.linhasComErro
          /\ q.linhasComErro =
               Cardinality({i \in 1..Len(promise.data) : promise.data[i].hasErrors})

\* C8: avisos holds a warning for every category of erros whose counter is
\* > 0, and is empty when all counters are 0.
C8_WarningPerCategory ==
  promise.state = "resolved" =>
    LET q == promise.quality[1]
    IN /\ \A c \in DOMAIN q.erros :
            q.erros[c] > 0 => \E j \in 1..Len(q.avisos) : q.avisos[j].categoria = c
       /\ (\A c \in DOMAIN q.erros : q.erros[c] = 0) => q.avisos = <<>>

C9_AllZeros(m) ==
  /\ m.receitaTotal = 0
  /\ m.ticketMedioPorCompra = [k |-> "finite", num |-> 0, den |-> 1]
  /\ m.ticketMedioPorCliente = [k |-> "finite", num |-> 0, den |-> 1]
  /\ m.itensVendidos = 0
  /\ m.pontosTotais = 0
  /\ m.numeroTransacoes = 0
  /\ m.numeroClientes = 0
  /\ m.numeroSKUs = 0

\* C9: degenerate inputs yield zero/empty finite results: a parse of no rows
\* resolves with no records and a finite percentualValidas, and the overview
\* of an empty record set is all zeros.
C9_DegenerateInputs ==
  /\ (promise.state = "resolved" /\ promise.file = <<>>) =>
       /\ promise.data = <<>>
       /\ promise.quality[1].percentualValidas.k = "finite"
  /\ (metrics # <<>> /\ filteredData = <<>>) =>
       C9_AllZeros(metrics[1])

\* the sum of ValorLinhaVenda over the rows i..Len(data) whose Tipo is Venda
RECURSIVE C10_SaleSum(_, _)
C10_SaleSum(data, i) ==
  IF i > Len(data) THEN 0
  ELSE (IF data[i].Tipo = "Venda" THEN data[i].ValorLinhaVenda ELSE 0)
       + C10_SaleSum(data, i + 1)

\* C10: calculateOverviewMetrics returns the same receitaTotal,
\* ticketMedioPorCompra and ticketMedioPorCliente for incluirBrindesDoacao
\* true and false, and receitaTotal is the sum of ValorLinhaVenda over the
\* rows whose Tipo is Venda.
C10_RevenueFlagIndependent ==
  metrics # <<>> =>
    LET other == calculateOverviewMetrics(filteredData, ~filters.incluirBrindesDoacao)
    IN /\ metrics[1].receitaTotal = other.receitaTotal
       /\ metrics[1].ticketMedioPorCompra = other.ticketMedioPorCompra
       /\ metrics[1].ticketMedioPorCliente = other.ticketMedioPorCliente
       /\ metrics[1].receitaTotal = C10_SaleSum(filteredData, 1)

\* the overview of a sale and a gift of positive ValorPraticado, rendered
\* with the toggle on
C10_Witness ==
  /\ metrics # <<>>
  /\ filters.incluirBrindesDoacao
  /\ \E i, j \in 1..Len(filteredData) :
       /\ filteredData[i].Tipo = "Venda"
       /\ filteredData[j].Tipo = "Brinde"
       /\ filteredData[j].ValorPraticado > 0
  /\ metrics[1].receitaTotal > 0
  /\ metrics[1].itensVendidos > 3

\* the rows the toggle selects
C11_Selected(data, incluir) ==
  {i \in 1..Len(data) : incluir \/ data[i].Tipo = "Venda"}

\* C11 as stated: numeroClientes, numeroSKUs and numeroTransacoes are counted
\* over the full record set: each is the same for incluirBrindesDoacao true
\* and false.
C11_CountsFlagIndependent ==
  metrics # <<>> =>
    LET other == calculateOverviewMetrics(filteredData, ~filters.incluirBrindesDoacao)
    IN /\ metrics[1].numeroClientes = other.numeroClientes
       /\ metrics[1].numeroSKUs = other.numeroSKUs
       /\ metrics[1].numeroTransacoes = other.numeroTransacoes

\* C11 amended: numeroClientes and numeroTransacoes are counted over the full
\* record set, the same for both values of the toggle; numeroSKUs counts the
\* distinct SKUs other than INVALID of the rows the toggle selects.
C11_CountsAmended ==
  metrics # <<>> =>
    LET data == filteredData
        other == calculateOverviewMetrics(data, ~filters.incluirBrindesDoacao)
    IN /\ metrics[1].numeroClientes = other.numeroClientes
       /\ metrics[1].numeroClientes =
            Cardinality({data[i].NomeRevendedora : i \in 1..Len(data)})
       /\ metrics[1].numeroTransacoes = other.numeroTransacoes
       /\ metrics[1].numeroTransacoes =
            Cardinality({data[i].TransactionId : i \in 1..Len(data)})
       /\ metrics[1].numeroSKUs =
            Cardinality({data[i].SKU : i \in C11_Selected(data, filters.incluirBrindesDoacao)}
                        \ {INVALID})

\* the overview with the toggle off over a gift and a sale of one customer
\* with two different valid SKUs: one SKU counted
C11_Witness ==
  /\ metrics # <<>>
  /\ ~filters.incluirBrindesDoacao
  /\ Len(filteredData) = 2
  /\ filteredData[1].Tipo = "Brinde"
  /\ filteredData[2].Tipo = "Venda"
  /\ filteredData[1].SKU # INVALID
  /\ filteredData[2].SKU # INVALID
  /\ filteredData[1].SKU # filteredData[2].SKU
  /\ metrics[1].numeroSKUs = 1
  /\ metrics[1].numeroTransacoes = 1

\* the pairs (NomeRevendedora, CicloLabel) of a record set
C12_Pairs(data) == {<<data[i].NomeRevendedora, data[i].CicloLabel>> : i \in 1..Len(data)}

\* the largest QuantidadePontos among the rows of a pair
C12_MaxOfPair(data, pair) ==
  LET S == {data[i].QuantidadePontos :
              i \in {j \in 1..Len(data) :
                       <<data[j].NomeRevendedora, data[j].CicloLabel>> = pair}}
  IN CHOOSE m \in S : \A x \in S : x <= m

RECURSIVE C12_SumOfMax(_, _)
C12_SumOfMax(data, pairs) ==
  IF pairs = {} THEN 0
  ELSE LET pair == CHOOSE q \in pairs : TRUE
       IN C12_MaxOfPair(data, pair) + C12_SumOfMax(data, pairs \ {pair})

\* data without its row i
C12_Without(data, i) == SubSeq(data, 1, i - 1) \o SubSeq(data, i + 1, Len(data))

\* C12: pontosTotais is the sum, over the distinct pairs (NomeRevendedora,
\* CicloLabel) of the record set, of the largest QuantidadePontos among the
\* rows of the pair; a further row of an existing pair whose points are not
\* above the pair's maximum leaves pontosTotais unchanged.
C12_PointsMaxPerPair ==
  metrics # <<>> =>
    LET data == filteredData
    IN /\ metrics[1].pontosTotais = C12_SumOfMax(data, C12_Pairs(data))
       /\ \A i \in 1..Len(data) :
            (\E j \in 1..Len(data) :
               /\ j # i
               /\ data[j].NomeRevendedora = data[i].NomeRevendedora
               /\ data[j].CicloLabel = data[i].CicloLabel
               /\ data[j].QuantidadePontos >= data[i].QuantidadePontos)
            => calculateOverviewMetrics(C12_Without(data, i),
                                        filters.incluirBrindesDoacao).pontosTotais
               = metrics[1].pontosTotais

(***************************************************************************)
(* Claims about segmentClients, checked under SpecSeg.                     *)
(***************************************************************************)
\* the k-th smallest of the values (k from 1)
C13_OrderStat(vals, k) ==
  CHOOSE v \in {vals[i] : i \in 1..Len(vals)} :
    /\ Cardinality({i \in 1..Len(vals) : vals[i] < v}) < k
    /\ k <= Cardinality({i \in 1..Len(vals) : vals[i] <= v})

\* 100 times the p-th percentile: the order statistics around
\* index = (p / 100) * (n - 1), interpolated linearly
C13_Pct100(vals, p) ==
  LET index100 == p * (Len(vals) - 1)
      lower == index100 \div 100
      weight100 == index100 % 100
  IN C13_OrderStat(vals, lower + 1) * (100 - weight100)
     + (IF weight100 = 0 THEN 0 ELSE C13_OrderStat(vals, lower + 2) * weight100)

C13_Receitas == [i \in 1..Len(clientesIn) |-> clientesIn[i].receitaTotal]
C13_Frequencias == [i \in 1..Len(clientesIn) |-> clientesIn[i].numeroTransacoes]

C13_IsVIP(c) ==
  /\ c.receitaTotal * 100 >= C13_Pct100(C13_Receitas, 90)
  /\ c.numeroTransacoes * 100 >= C13_Pct100(C13_Frequencias, 75)

C13_IsPotencial(c) ==
  \/ c.receitaTotal * 100 >= C13_Pct100(C13_Receitas, 75)
  \/ c.numeroTransacoes * 100 >= C13_Pct100(C13_Frequencias, 75)

C13_IsNovo(c) ==
  /\ c.numeroTransacoes * 100 < C13_Pct100(C13_Frequencias, 50)
  /\ c.numeroCiclosAtivos <= 1

\* receita / transacoes < p50Receita / p75Freq and itens > p75Freq
C13_IsPromo(c) ==
  /\ c.receitaTotal * C13_Pct100(C13_Frequencias, 75)
       < C13_Pct100(C13_Receitas, 50) * c.numeroTransacoes
  /\ c.itensComprados * 100 > C13_Pct100(C13_Frequencias, 75)

C13_IsLogistica(c) == c.percentualRetirada.num >= 80 * c.percentualRetirada.den

\* C13: segmentClients gives each client exactly one segment, the first that
\* matches in the order VIP, Potencial, Novo, Cacador de Promo, Logistica
\* Sensivel, Ocasional, with percentiles that are linearly interpolated order
\* statistics over all clients of the set.
C13_FirstMatch ==
  segmentsOut # <<>> =>
    /\ Len(segmentsOut[1]) = Len(clientesIn)
    /\ \A i \in 1..Len(clientesIn) :
         LET c == clientesIn[i]
             s == segmentsOut[1][i].segmento
         IN /\ segmentsOut[1][i].NomeRevendedora = c.NomeRevendedora
            /\ s = "VIP" <=> C13_IsVIP(c)
            /\ s = "Potencial" <=> ~C13_IsVIP(c) /\ C13_IsPotencial(c)
            /\ s = "Novo" <=> ~C13_IsVIP(c) /\ ~C13_IsPotencial(c) /\ C13_IsNovo(c)
            /\ s = "Cacador de Promo" <=>
                 /\ ~C13_IsVIP(c) /\ ~C13_IsPotencial(c) /\ ~C13_IsNovo(c)
                 /\ C13_IsPromo(c)
            /\ s = "Logistica Sensivel" <=>
                 /\ ~C13_IsVIP(c) /\ ~C13_IsPotencial(c) /\ ~C13_IsNovo(c)
                 /\ ~C13_IsPromo(c) /\ C13_IsLogistica(c)
            /\ s = "Ocasional" <=>
                 /\ ~C13_IsVIP(c) /\ ~C13_IsPotencial(c) /\ ~C13_IsNovo(c)
                 /\ ~C13_IsPromo(c) /\ ~C13_IsLogistica(c)

\* three clients segmented VIP, Potencial and Cacador de Promo, the last one
\* also delivered by pickup
C13_Witness ==
  /\ segmentsOut # <<>>
  /\ Len(clientesIn) = 3
  /\ \E i, j, l \in 1..3 :
       /\ segmentsOut[1][i].segmento = "VIP"
       /\ segmentsOut[1][j].segmento = "Potencial"
       /\ segmentsOut[1][l].segmento = "Cacador de Promo"
       /\ C13_IsLogistica(clientesIn[l])

C14_IsLadder ==
  /\ Len(clientesIn) = 10
  /\ \A i \in 1..10 : clientesIn[i].receitaTotal = 100 * i

\* C14: of ten clients with revenues 100, 200, ..., 1000 exactly one, the one
\* of revenue 1000, has revenue >= p90; it is VIP if its transaction count is
\* >= the p75 of the transaction counts, and Potencial otherwise.
C14_TopDecile ==
  (segmentsOut # <<>> /\ C14_IsLadder) =>
    LET p90 == percentile(SortAsc(Column(clientesIn, "receitaTotal")), 90)
        p75Freq == percentile(SortAsc(Column(clientesIn, "numeroTransacoes")), 75)
    IN /\ {i \in 1..10 : QGe(Fin(clientesIn[i].receitaTotal), p90)} = {10}
       /\ segmentsOut[1][10].segmento =
            (IF QGe(Fin(clientesIn[10].numeroTransacoes), p75Freq)
             THEN "VIP" ELSE "Potencial")
       /\ (\A i \in 1..10 : clientesIn[i].numeroTransacoes = clientesIn[10].numeroTransacoes)
            => segmentsOut[1][10].segmento = "VIP"

\* the ladder with the same transaction count for all: the client of revenue
\* 1000 is VIP, the client of revenue 900 is not
C14_Witness ==
  /\ segmentsOut # <<>>
  /\ C14_IsLadder
  /\ \A i \in 1..10 : clientesIn[i].numeroTransacoes = 3
  /\ segmentsOut[1][10].segmento = "VIP"
  /\ segmentsOut[1][9].segmento # "VIP"

\* the ladder whose top client has fewer transactions than the others
C14_WitnessPotencial ==
  /\ segmentsOut # <<>>
  /\ C14_IsLadder
  /\ clientesIn[10].numeroTransacoes = 1
  /\ clientesIn[1].numeroTransacoes = 3
  /\ segmentsOut[1][10].segmento = "Potencial"

(***************************************************************************)
(* Claims about marketBasket.ts, checked under SpecBasket.                 *)
(***************************************************************************)
C15_Eligible ==
  {i \in 1..Len(recordsIn) :
     /\ recordsIn[i].SKU # INVALID
     /\ incluirIn \/ recordsIn[i].Tipo = "Venda"}

C15_Items(basket) == {basket.items[i] : i \in 1..Len(basket.items)}

\* C15: generateBaskets returns exactly one basket per distinct basketKey
\* among the eligible rows (SKU not INVALID, sales only unless the flag is
\* set); the items of a basket are the distinct SKUs of its rows, without
\* duplicates and never INVALID, and no basket is empty.
C15_OneBasketPerKey ==
  basketsOut # <<>> =>
    LET baskets == basketsOut[1]
    IN /\ {baskets[b].transactionId : b \in 1..Len(baskets)}
            = {recordsIn[i].TransactionId : i \in C15_Eligible}
       /\ \A b, c \in 1..Len(baskets) :
            baskets[b].transactionId = baskets[c].transactionId => b = c
       /\ \A b \in 1..Len(baskets) :
            /\ C15_Items(baskets[b])
                 = {recordsIn[i].SKU :
                      i \in {j \in C15_Eligible :
                               recordsIn[j].TransactionId = baskets[b].transactionId}}
            /\ Cardinality(C15_Items(baskets[b])) = Len(baskets[b].items)
            /\ INVALID \notin C15_Items(baskets[b])
            /\ baskets[b].items # <<>>

\* two baskets; a SKU bought twice by one customer and a gift row were
\* read, with gifts left out
C15_Witness ==
  /\ basketsOut # <<>>
  /\ Len(basketsOut[1]) = 2
  /\ ~incluirIn
  /\ \E i, j \in 1..Len(recordsIn) :
       /\ i # j
       /\ recordsIn[i].SKU = recordsIn[j].SKU
       /\ recordsIn[i].TransactionId = recordsIn[j].TransactionId
       /\ recordsIn[i].Tipo = "Venda"
       /\ recordsIn[j].Tipo = "Venda"
       /\ recordsIn[i].SKU # INVALID
  /\ \E i \in 1..Len(recordsIn) : recordsIn[i].Tipo = "Brinde"

\* the number of baskets that hold both items
C16_K(baskets, a, b) ==
  Cardinality({i \in 1..Len(baskets) :
                 a \in C15_Items(baskets[i]) /\ b \in C15_Items(baskets[i])})

C16_AllItems(baskets) == UNION {C15_Items(baskets[i]) : i \in 1..Len(baskets)}

\* C16: calculateFrequentPairs reports each unordered pair at most once, with
\* itemA < itemB, occurrences = k (the baskets holding both items) and
\* support = k / N (N baskets); a pair is reported exactly when k >= 1 and
\* k / N >= minSupport.
C16_PairsCounted ==
  pairsOut # <<>> =>
    LET baskets == basketsOut[1]
        pairs == pairsOut[1]
        N == Len(baskets)
    IN /\ \A p \in 1..Len(pairs) :
            /\ StrLess(pairs[p].itemA, pairs[p].itemB)
            /\ pairs[p].occurrences = C16_K(baskets, pairs[p].itemA, pairs[p].itemB)
            /\ pairs[p].suporte.k = "finite"
            /\ pairs[p].suporte.num * N = pairs[p].occurrences * pairs[p].suporte.den
       /\ \A p, q \in 1..Len(pairs) :
            {pairs[p].itemA, pairs[p].itemB} = {pairs[q].itemA, pairs[q].itemB} => p = q
       /\ \A a, b \in C16_AllItems(baskets) :
            a # b =>
              ((\E p \in 1..Len(pairs) : {pairs[p].itemA, pairs[p].itemB} = {a, b})
                 <=> /\ C16_K(baskets, a, b) >= 1
                     /\ C16_K(baskets, a, b) * minSupportIn.den >= minSupportIn.num * N)

\* two baskets hold the same two products; the pair is reported once, with
\* two occurrences, under the threshold 1/2
C16_Witness ==
  /\ pairsOut # <<>>
  /\ Len(basketsOut[1]) = 2
  /\ minSupportIn = JsDiv(1, 2)
  /\ Len(pairsOut[1]) = 1
  /\ pairsOut[1][1].occurrences = 2

\* a pair found in one basket of three is cut off by the threshold 1/2
C16_BelowThreshold ==
  /\ pairsOut # <<>>
  /\ Len(basketsOut[1]) = 3
  /\ minSupportIn = JsDiv(1, 2)
  /\ pairsOut[1] = <<>>
  /\ \E a, b \in C16_AllItems(basketsOut[1]) : a # b /\ C16_K(basketsOut[1], a, b) = 1

C17_LiftBelowOne ==
  /\ pairsOut # <<>>
  /\ \E p \in 1..Len(pairsOut[1]) : QLt(pairsOut[1][p].lift, Fin(1))

(***************************************************************************)
(* Claims about regression.ts, checked under SpecPred.                     *)
(***************************************************************************)
\* the rows of a SKU the forecast is made from
C18_Rows(sku) ==
  {i \in 1..Len(recordsIn) :
     /\ recordsIn[i].SKU = sku
     /\ recordsIn[i].CicloIndex # -1
     /\ incluirIn \/ recordsIn[i].Tipo = "Venda"}

C18_Skus == {recordsIn[i].SKU : i \in 1..Len(recordsIn)}

C18_Predicted(sku) ==
  \E p \in 1..Len(predictionsOut[1]) : predictionsOut[1][p].SKU = sku

\* C18: generatePredictions emits a prediction for a SKU if and only if the
\* SKU is not INVALID and its flag-filtered rows with a valid cycle cover at
\* least 3 distinct cycles, a cycle being a cycleIndex value.
C18_ThreeDistinctCycles ==
  predictionsOut # <<>> =>
    \A sku \in C18_Skus :
      C18_Predicted(sku)
        <=> /\ sku # INVALID
            /\ Cardinality({recordsIn[i].CicloIndex : i \in C18_Rows(sku)}) >= MinCiclos

\* what the code does instead: it counts the distinct cycle labels
C18_ThreeDistinctLabels ==
  predictionsOut # <<>> =>
    \A sku \in C18_Skus :
      C18_Predicted(sku)
        <=> /\ sku # INVALID
            /\ Cardinality({recordsIn[i].CicloLabel : i \in C18_Rows(sku)}) >= MinCiclos

\* the demand of a SKU in the cycle of index c
C19_Demand(sku, c) ==
  SumOver({i \in C18_Rows(sku) : recordsIn[i].CicloIndex = c},
          [i \in 1..Len(recordsIn) |-> recordsIn[i].QuantidadeItens])

C19_Cycles(sku) == {recordsIn[i].CicloIndex : i \in C18_Rows(sku)}

C19_First(sku) == CHOOSE c \in C19_Cycles(sku) : \A d \in C19_Cycles(sku) : c <= d
C19_Last(sku) == CHOOSE c \in C19_Cycles(sku) : \A d \in C19_Cycles(sku) : c >= d

\* the demand per cycle runs over at least 3 consecutive cycles and grows
\* by the same step from each cycle to the next
C19_LinearBy(sku, step) ==
  /\ sku # INVALID
  /\ Cardinality(C19_Cycles(sku)) >= MinCiclos
  /\ C19_Cycles(sku) = C19_First(sku)..C19_Last(sku)
  /\ \A c \in C19_First(sku)..(C19_Last(sku) - 1) :
       C19_Demand(sku, c + 1) - C19_Demand(sku, c) = step

\* the model generatePredictions fits for the SKU
C19_Model(sku) ==
  LET historico == Historico([i \in 1..Cardinality(C18_Rows(sku)) |->
                     recordsIn[CHOOSE j \in C18_Rows(sku) :
                                 Cardinality({l \in C18_Rows(sku) : l < j}) = i - 1]])
  IN fit(OffsetsOf(historico), Column(historico, "quantidade"))

C19_Steps == {0 - 20, 0 - 10, 10, 20}

\* C19: for a SKU whose demand per cycle over consecutive cycles is exactly
\* linear, R^2 is 1, the confidence is High and the forecast is the next
\* value on the line; for a constant series the trend is Stable and the
\* forecast is the constant.
C19_LinearForecast ==
  predictionsOut # <<>> =>
    \A sku \in C18_Skus :
      /\ \A step \in C19_Steps :
           C19_LinearBy(sku, step) =>
             \E p \in 1..Len(predictionsOut[1]) :
               /\ predictionsOut[1][p].SKU = sku
               /\ C19_Model(sku).r2.num = C19_Model(sku).r2.den
               /\ predictionsOut[1][p].confianca = "alta"
               /\ predictionsOut[1][p].previsaoProximoCiclo
                    = C19_Demand(sku, C19_Last(sku)) + step
      /\ C19_LinearBy(sku, 0) =>
           \E p \in 1..Len(predictionsOut[1]) :
             /\ predictionsOut[1][p].SKU = sku
             /\ predictionsOut[1][p].tendencia = "estavel"
             /\ predictionsOut[1][p].previsaoProximoCiclo = C19_Demand(sku, C19_Last(sku))

\* the series 10, 20, 30, 40, one row per cycle, is forecast as 50
C19_LinearExample ==
  /\ predictionsOut # <<>>
  /\ Len(recordsIn) = 4
  /\ Len(predictionsOut[1]) = 1
  /\ Column(predictionsOut[1][1].historico, "quantidade") = <<10, 20, 30, 40>>
  /\ predictionsOut[1][1].previsaoProximoCiclo = 50
  /\ predictionsOut[1][1].confianca = "alta"
  /\ predictionsOut[1][1].tendencia = "crescimento"

\* the series 10, 10, 10, 10, one row per cycle, is forecast as 10
C19_ConstantExample ==
  /\ predictionsOut # <<>>
  /\ Len(recordsIn) = 4
  /\ Len(predictionsOut[1]) = 1
  /\ Column(predictionsOut[1][1].historico, "quantidade") = <<10, 10, 10, 10>>
  /\ predictionsOut[1][1].previsaoProximoCiclo = 10
  /\ predictionsOut[1][1].tendencia = "estavel"

\* the series 20, 30, 40 with the first cycle written as "01/2026" in one
\* row and as "1/2026" in another is fitted on four points and forecast as 57
C19_SplitCycle ==
  /\ predictionsOut # <<>>
  /\ Len(predictionsOut[1]) = 1
  /\ C19_LinearBy(predictionsOut[1][1].SKU, 10)
  /\ C19_Demand(predictionsOut[1][1].SKU, C19_Last(predictionsOut[1][1].SKU)) = 40
  /\ Column(predictionsOut[1][1].historico, "quantidade") = <<10, 10, 30, 40>>
  /\ predictionsOut[1][1].previsaoProximoCiclo = 57

\* the series 50, 30, 10 would continue with -10 and is forecast as 0
C19_Clamped ==
  /\ predictionsOut # <<>>
  /\ Len(predictionsOut[1]) = 1
  /\ Column(predictionsOut[1][1].historico, "quantidade") = <<50, 30, 10>>
  /\ C19_Model(predictionsOut[1][1].SKU).r2.num = C19_Model(predictionsOut[1][1].SKU).r2.den
  /\ predictionsOut[1][1].previsaoProximoCiclo = 0

(***************************************************************************)
(* Claims about the upload, checked under SpecUpload.                      *)
(***************************************************************************)
\* C21: when the ingestion of a file fails fatally (parseExcelFile rejects),
\* no partial result is stored: once the failure is applied the store's
\* records and quality report are what they were before that upload started,
\* error is a message and isLoading is false.
C21_FailureStoresNothing ==
  (lastStore.op = "setError" /\ lastStore.id > 0) =>
    /\ rawData = uploads[lastStore.id].before.rawData
    /\ dataQuality = uploads[lastStore.id].before.dataQuality
    /\ error # "null"
    /\ isLoading = FALSE

\* the same for an upload that no other upload overlapped
C21_AloneStoresNothing ==
  (/\ lastStore.op = "setError"
   /\ lastStore.id > 0
   /\ \A i \in 1..Len(uploads) : ~uploads[i].overlap) =>
    /\ rawData = uploads[lastStore.id].before.rawData
    /\ dataQuality = uploads[lastStore.id].before.dataQuality
    /\ error # "null"
    /\ isLoading = FALSE

\* a failure applied after the report of an earlier empty sheet was stored
C21_FailureKeepsReport ==
  /\ lastStore.op = "setError"
  /\ lastStore.id = 2
  /\ ~uploads[2].overlap
  /\ dataQuality # <<>>
  /\ dataQuality = uploads[2].before.dataQuality

\* C26: from the moment handleFile has started ingesting an accepted file
\* until the result is applied by setData or setError, isLoading is true; it
\* is false once the result is applied.
C26_LoadingWhileInFlight ==
  /\ (\E i \in 1..Len(uploads) : ~uploads[i].applied) => isLoading = TRUE
  /\ (lastStore.op \in {"setData", "setError"} /\ lastStore.id > 0) => isLoading = FALSE

\* what holds instead: isLoading is false in every state between two actions
C26_NeverLoading == isLoading = FALSE

\* C29: when a second ingestion is started while an earlier one is in
\* flight, then after both have completed, in either order, the store's
\* rawData and dataQuality are those of the ingestion that started last.
C29_LatestStartedWins ==
  (/\ Len(uploads) = 2
   /\ uploads[2].overlap
   /\ uploads[1].applied /\ uploads[2].applied
   /\ uploads[1].promise.state = "resolved" /\ uploads[2].promise.state = "resolved"
   /\ lastStore.op = "setData") =>
    /\ rawData = uploads[2].promise.data
    /\ dataQuality = uploads[2].promise.quality

\* what holds instead: the store holds the result that was applied last
C29_LastAppliedWins ==
  lastStore.op = "setData" =>
    /\ rawData = uploads[lastStore.id].promise.data
    /\ dataQuality = uploads[lastStore.id].promise.quality

\* the later of two overlapping uploads completed first and the store holds
\* the rows of the earlier one
C29_StaleResult ==
  /\ Len(uploads) = 2
  /\ uploads[2].overlap
  /\ uploads[1].applied /\ uploads[2].applied
  /\ lastStore = [op |-> "setData", id |-> 1]
  /\ rawData = uploads[1].promise.data
  /\ rawData # uploads[2].promise.data
  /\ uploads[2].promise.state = "resolved"

(***************************************************************************)
(* Claims about applyFilters, checked under SpecFilter.                    *)
(***************************************************************************)
\* the criteria of the filter contract, the customer-name one compared
\* without regard to letter case
C22_Satisfies(row, f) ==
  /\ f.gerenciaCodes # <<>> => \E i \in 1..Len(f.gerenciaCodes) : f.gerenciaCodes[i] = row.GerenciaCode
  /\ f.setores # <<>> => \E i \in 1..Len(f.setores) : f.setores[i] = row.Setor
  /\ f.ciclos # <<>> => \E i \in 1..Len(f.ciclos) : f.ciclos[i] = row.CicloLabel
  /\ f.meiosCaptacao # <<>> => \E i \in 1..Len(f.meiosCaptacao) : f.meiosCaptacao[i] = row.MeioCaptacao
  /\ f.entregaCategorias # <<>> =>
       \E i \in 1..Len(f.entregaCategorias) : f.entregaCategorias[i] = row.EntregaCategoria
  /\ f.searchRevendedora # <<>> =>
       Includes(toLowerCase(row.NomeRevendedora), toLowerCase(f.searchRevendedora))
  /\ f.searchProduto # <<>> =>
       \/ Includes(toLowerCase(row.NomeProduto), toLowerCase(f.searchProduto))
       \/ Includes(row.SKU, f.searchProduto)

\* C22: applyFilters returns, in their order, exactly the records that
\* satisfy every active criterion, an empty list or search text imposing
\* none; the customer-name criterion keeps a record iff the search text is
\* a substring of its customer name compared case-insensitively, for every
\* name ingestion produces, the customer-code fallback name included.
C22_CaseInsensitiveSubsequence ==
  filteredOut # <<>> =>
    filteredOut[1] = SelectSeq(recordsIn, LAMBDA row : C22_Satisfies(row, filtersIn))

\* a customer-code fallback name with lower-case letters that holds the
\* search text and is filtered out
C22_FallbackNameMissed ==
  /\ filteredOut # <<>>
  /\ filtersIn = [defaultFilters EXCEPT !.searchRevendedora = <<"a", "b">>]
  /\ \E i \in 1..Len(recordsIn) :
       /\ recordsIn[i].NomeRevendedora = ClientePrefix \o <<"a", "b">>
       /\ \A j \in 1..Len(filteredOut[1]) : filteredOut[1][j] # recordsIn[i]

(***************************************************************************)
(* Claims about the aggregations, checked under SpecAgg.                   *)
(***************************************************************************)
\* the sum of field f over the rows of data whose index is in S
RECURSIVE C23_SumAt(_, _, _)
C23_SumAt(data, S, f) ==
  IF S = {} THEN 0
  ELSE LET i == CHOOSE j \in S : TRUE IN data[i][f] + C23_SumAt(data, S \ {i}, f)

\* the indices of the flag-filtered rows of a SKU
C23_RowsOf(sku) ==
  {i \in 1..Len(recordsIn) :
     /\ recordsIn[i].SKU = sku
     /\ incluirIn \/ recordsIn[i].Tipo = "Venda"}

\* C23: calculateProductRanking returns one entry per distinct non-INVALID
\* SKU among the flag-filtered rows; its quantity is the sum of the item
\* quantities of those rows, its revenue the sum of the sale line values of
\* the Sale rows among them, its transaction and customer counts the
\* numbers of distinct basket keys and customer names; the entries are in
\* order of non-increasing revenue.
C23_RankingPerSku ==
  rankingOut # <<>> =>
    LET ranking == rankingOut[1]
        skus == {recordsIn[i].SKU :
                   i \in {j \in 1..Len(recordsIn) :
                            incluirIn \/ recordsIn[j].Tipo = "Venda"}} \ {INVALID}
    IN /\ {ranking[p].SKU : p \in 1..Len(ranking)} = skus
       /\ Len(ranking) = Cardinality(skus)
       /\ \A p \in 1..Len(ranking) :
            /\ ranking[p].quantidade
                 = C23_SumAt(recordsIn, C23_RowsOf(ranking[p].SKU), "QuantidadeItens")
            /\ ranking[p].receita
                 = C23_SumAt(recordsIn,
                             {i \in C23_RowsOf(ranking[p].SKU) : recordsIn[i].Tipo = "Venda"},
                             "ValorLinhaVenda")
            /\ ranking[p].numeroTransacoes
                 = Cardinality({recordsIn[i].TransactionId : i \in C23_RowsOf(ranking[p].SKU)})
            /\ ranking[p].numeroClientes
                 = Cardinality({recordsIn[i].NomeRevendedora : i \in C23_RowsOf(ranking[p].SKU)})
       /\ \A p \in 1..(Len(ranking) - 1) : ranking[p].receita >= ranking[p + 1].receita

\* a ranking of two products, the second one only given as a gift and
\* read before the first, from rows one of which has no valid SKU
C23_Witness ==
  /\ rankingOut # <<>>
  /\ incluirIn
  /\ Len(rankingOut[1]) = 2
  /\ rankingOut[1][1].receita > 0
  /\ rankingOut[1][2].receita = 0
  /\ rankingOut[1][2].quantidade > 0
  /\ Len(recordsIn) = 3
  /\ recordsIn[1].SKU = rankingOut[1][2].SKU
  /\ \E i \in 1..Len(recordsIn) : recordsIn[i].SKU = INVALID

\* C24: the points of the clients of calculateClientMetrics add up to the
\* total points of the overview, the sum over (customer, cycle) pairs of
\* the largest points value of the pair.
C24_PointsMatchOverview ==
  clientMetricsOut # <<>> =>
    Sum(Column(clientMetricsOut[1], "pontosTotais")) = overviewOut[1].pontosTotais

\* a customer with 10 points in one cycle and 20 in another has 20 points
\* as a client and 30 in the overview
C24_MaxOverCycles ==
  /\ clientMetricsOut # <<>>
  /\ Len(clientMetricsOut[1]) = 1
  /\ clientMetricsOut[1][1].numeroCiclosAtivos = 2
  /\ clientMetricsOut[1][1].pontosTotais = 20
  /\ overviewOut[1].pontosTotais = 30

C25_KeyDeterminesFields ==
  \A i, j \in 1..Len(rawData) :
    rawData[i].TransactionId = rawData[j].TransactionId =>
      /\ rawData[i].NomeRevendedora = rawData[j].NomeRevendedora
      /\ rawData[i].CicloLabel = rawData[j].CicloLabel
      /\ rawData[i].DataCaptacao = rawData[j].DataCaptacao

\* customer 'A|B' in cycle '01/2026' and customer 'A' in cycle
\* 'B|01/2026' under one TransactionId
C25_SharedKey ==
  /\ Len(rawData) = 2
  /\ rawData[1].TransactionId = rawData[2].TransactionId
  /\ rawData[1].NomeRevendedora = <<"A", "|", "B">>
  /\ rawData[2].NomeRevendedora = <<"A">>
  /\ rawData[2].CicloLabel = <<"B", "|", "0", "1", "/", "2", "0", "2", "6">>

(***************************************************************************)
(* Claims about the filter bar, checked under SpecDebounce.                *)
(***************************************************************************)
\* C30: once resetFilters has been applied and the user does nothing
\* more, the filters of the store are the default filters and stay so; no
\* debounced search update scheduled before the reset is applied after it.
C30_ResetStays == quiet => filters = defaultFilters

\* a search text applied by a timeout that was pending at the reset
C30_StaleSearch ==
  /\ quiet
  /\ filters = [defaultFilters EXCEPT !.searchRevendedora = <<"a", "n">>]
  /\ ~timers.searchRevendedora.armed
  /\ timers.searchRevendedora.value = <<"a", "n">>

\* with no timeout pending at the reset, the filters stay the defaults
C30_NoPendingTimer ==
  [][(quiet /\ ~timers.searchRevendedora.armed /\ ~timers.searchProduto.armed
        /\ filters = defaultFilters /\ quiet')
       => filters' = defaultFilters]_vars

====
